---- MODULE Spec2Model ----
(***************************************************************************)
(* Kina webapp: the host-identity resolver (state/telegramInitData), the   *)
(* auth gate (api/authGate), the API client (api/client) and the          *)
(* UserData provider (state/userData), as one state machine over the       *)
(* browser event loop: every action is one job (a macrotask that runs     *)
(* only when the microtask queue is empty) or one microtask.               *)
(***************************************************************************)
EXTENDS Integers, Sequences, FiniteSets, TLC

\* ------------------------------------------------------------------ bounds
MaxApiCalls == 2
MaxAuthCalls == 2
MaxTasks == 2
MaxRefreshCalls == 2
MaxHostWrites == 1
MaxRefreshAuth == 1
MaxResolve == 2
MaxWatch == 2
MaxAdsStart == 1
MaxContinue == 2
initDataRetry == 2
MaxClock == 2

\* ---------------------------------------------------------------- constants
Null == "null"
TgValues == {"", "tg1"}
SearchValues == {"", "qs"}
HashValues == {"", "h"}
TokenValues == {"t0", "t1"}
TokenDetails == {"token_expired", "token_invalid", "token_missing"}
OtherDetails == {"init_data_invalid", Null}
\* premium_until of an AuthResponse: absent, a date that has passed, a date to come
PremiumValues == {Null, "past", "future"}
AuthStatus == {"pending", "ready", "missing", "failed"}
AudioIds == {"a1", "a2"}
QualityIds == {"q1", "q2"}
VariantIds == {"v1", "v2"}
\* retry_after of an ad_cooldown rejection: absent, or a number of seconds
RetryAfterValues == {Null, "0", "30"}
AD_TIMER_SECONDS == 10

VARIABLES
  tgInitData, urlSearch, urlHash, hostWrites, clock,
  currentInitData, currentInitDataSource, initData, initDataSource, timestamp,
  isChecking, inflightRef, tasks, nTasks, refreshCalls, nRefreshCalls,
  authToken, lsToken, devUserId,
  authStatus, deferred, resolved, marks,
  calls, nCalls, response, settled,
  effectDeps, microtasks,
  user, premiumUntil, premiumActive, authResult, nRefreshAuth

envVars == <<tgInitData, urlSearch, urlHash, hostWrites, clock>>
resolverVars == <<currentInitData, currentInitDataSource, initData, initDataSource, timestamp,
                  isChecking, inflightRef, tasks, nTasks, refreshCalls, nRefreshCalls>>
tokenVars == <<authToken, lsToken, devUserId>>
gateVars == <<authStatus, deferred, resolved, marks>>
clientVars == <<calls, nCalls, response, settled>>
userVars == <<user, premiumUntil, premiumActive>>
authVars == <<envVars, resolverVars, tokenVars, gateVars, clientVars, effectDeps, microtasks,
              userVars, authResult, nRefreshAuth>>

\* the pages: the route shown, the watch flow state of WatchProvider, the state
\* of TitlePage and of AdPage, the two preference keys of local storage, the
\* invocations of the async handlers
VARIABLES
  route, state,
  title, titleCall, episodes, episodesCall, selectedEpisodeId,
  audioId, qualityId, resolveStatus, resolvedSelection,
  lsAudio, lsQuality,
  nonce, secondsLeft, cooldownMessage, completed,
  resolves, nResolve, watches, nWatch, adsStarts, nAdsStart, continues, nContinue

flowVars == <<route, state>>
titleVars == <<title, titleCall, episodes, episodesCall, selectedEpisodeId,
               audioId, qualityId, resolveStatus, resolvedSelection>>
prefVars == <<lsAudio, lsQuality>>
adVars == <<nonce, secondsLeft, cooldownMessage, completed>>
resolveVars == <<resolves, nResolve>>
watchCallVars == <<watches, nWatch>>
adsStartVars == <<adsStarts, nAdsStart>>
continueVars == <<continues, nContinue>>
watchVars == <<flowVars, titleVars, prefVars, adVars, resolveVars, watchCallVars,
               adsStartVars, continueVars>>

vars == <<authVars, watchVars>>

MaxCalls == MaxApiCalls + MaxAuthCalls
CallIds == 1..MaxCalls
TaskIds == 1..MaxTasks
DeferredIds == 0..MaxAuthCalls

\* ------------------------------------------------ host-identity resolver
\* Date.now(): the wall clock, a count of the time units passed since the mount
DateNow == clock

\* a URL reader that looks at the fragment before the query string
readInitDataFromUrlHashFirst ==
  IF urlHash # "" THEN [value |-> urlHash, source |-> "url-hash"]
  ELSE IF urlSearch # "" THEN [value |-> urlSearch, source |-> "url-search"]
  ELSE [value |-> "", source |-> Null]

\* urlSearch and urlHash stand for the value of the tgWebAppData parameter of
\* the query string and of the fragment, "" when the parameter is absent
readInitDataFromUrl ==
  IF urlSearch # "" THEN [value |-> urlSearch, source |-> "url-search"]
  ELSE IF urlHash # "" THEN [value |-> urlHash, source |-> "url-hash"]
  ELSE [value |-> "", source |-> Null]

readInitData ==
  IF tgInitData # "" THEN [value |-> tgInitData, source |-> "telegram"]
  ELSE readInitDataFromUrl

NoTask == [pc |-> "none", attempt |-> 0, log |-> <<>>, value |-> "", source |-> Null]

\* a retry loop that sleeps and reads again although the read found a value
retryReadNoEarlyReturn(t, retries) ==
  LET r == readInitData
      seen == [tg |-> tgInitData, value |-> r.value, source |-> r.source]
      base == [t EXCEPT !.log = Append(@, seen)]
  IN IF t.attempt < retries
       THEN [base EXCEPT !.pc = "delay"]
     ELSE [base EXCEPT !.pc = "settling", !.value = r.value, !.source = r.source]

\* one read of the fallback chain inside retryInitData, for task record t
\* that has already slept `attempt` times: the loop returns at the first
\* non-empty read, or with the empty result once `retries` sleeps are used up
retryRead(t, retries) ==
  LET r == readInitData
      seen == [tg |-> tgInitData, value |-> r.value, source |-> r.source]
      base == [t EXCEPT !.log = Append(@, seen)]
  IN IF r.value # ""
       THEN [base EXCEPT !.pc = "settling", !.value = r.value, !.source = r.source]
     ELSE IF t.attempt < retries
       THEN [base EXCEPT !.pc = "delay"]
     ELSE [base EXCEPT !.pc = "settling", !.value = "", !.source = Null]

Enqueue(q, m) == Append(q, m)

\* the Response the running job is handling, if it is handling one
NoResponse == [call |-> 0, status |-> 0, detail |-> Null, token |-> Null,
               premium_until |-> Null]

\* an apiFetch call: where it stands, its arguments, whether it entered with
\* neither token nor dev id, the deferred it awaits, what waitForAuthReady
\* gave it, the credential header of its request, how it ended
NoCall == [pc |-> "none", path |-> "none", requiresAuth |-> FALSE, noCred |-> FALSE,
           awaited |-> -1, gate |-> "n/a", hdr |-> "n/a", outcome |-> "none"]

\* a call that has ended keeps no data; the job that ended it holds its record
DoneCall == [NoCall EXCEPT !.pc = "done"]
NoSettled == [call |-> 0, rec |-> NoCall]

\* a new job starts: nothing of the previous job's locals is left
newJob == response' = NoResponse /\ settled' = NoSettled /\ authResult' = "none"

\* a singleton that is only written when an identity was found
setCurrentInitDataIfFound(value, source) ==
  IF value # ""
    THEN currentInitData' = value /\ currentInitDataSource' = source
    ELSE UNCHANGED <<currentInitData, currentInitDataSource>>

setCurrentInitData(value, source) ==
  /\ currentInitData' = value
  /\ currentInitDataSource' = source

\* a refresh that never looks at the in-flight marker
refreshInitDataUnguarded == FALSE

\* refreshInitData: a call while a refresh is in flight returns the in-flight
\* promise; otherwise it starts the task, which runs synchronously up to the
\* first await (the first read of retryInitData)
refreshInitDataGuard == inflightRef # 0

refreshInitData ==
  /\ microtasks = <<>>
  /\ nRefreshCalls < MaxRefreshCalls
  /\ nRefreshCalls' = nRefreshCalls + 1
  /\ IF refreshInitDataGuard
       THEN /\ refreshCalls' = refreshCalls \cup
                 {[seen |-> inflightRef, got |-> inflightRef, started |-> FALSE]}
            /\ UNCHANGED <<isChecking, inflightRef, tasks, nTasks, microtasks>>
       ELSE /\ nTasks < MaxTasks
            /\ LET id == nTasks + 1
                   t == retryRead([NoTask EXCEPT !.pc = "start"], initDataRetry)
               IN /\ nTasks' = id
                  /\ tasks' = [tasks EXCEPT ![id] = t]
                  /\ inflightRef' = id
                  /\ isChecking' = TRUE
                  /\ microtasks' = IF t.pc = "settling"
                                     THEN Enqueue(microtasks, <<"settle", id>>)
                                     ELSE microtasks
                  /\ refreshCalls' = refreshCalls \cup
                       {[seen |-> inflightRef, got |-> id, started |-> TRUE]}
  /\ newJob
  /\ UNCHANGED <<envVars, currentInitData, currentInitDataSource, initData,
                 initDataSource, timestamp, tokenVars, gateVars, calls, nCalls, effectDeps,
                 userVars, nRefreshAuth, watchVars>>

\* a retry loop whose counter stands still
retryInitDataForever(id) ==
  /\ microtasks = <<>>
  /\ tasks[id].pc = "delay"
  /\ LET t == retryRead(tasks[id], initDataRetry)
     IN /\ tasks' = [tasks EXCEPT ![id] = t]
        /\ microtasks' = IF t.pc = "settling"
                           THEN Enqueue(microtasks, <<"settle", id>>)
                           ELSE microtasks
  /\ UNCHANGED <<envVars, currentInitData, currentInitDataSource, initData,
                 initDataSource, timestamp, isChecking, inflightRef, nTasks, refreshCalls,
                 nRefreshCalls, tokenVars, gateVars, calls, nCalls, effectDeps,
                 userVars, nRefreshAuth, watchVars>>
  /\ newJob

\* the delay timer of retryInitData fires: attempt += 1, read again
retryInitData(id) ==
  /\ microtasks = <<>>
  /\ tasks[id].pc = "delay"
  /\ LET t == retryRead([tasks[id] EXCEPT !.attempt = @ + 1],
                        initDataRetry)
     IN /\ tasks' = [tasks EXCEPT ![id] = t]
        /\ microtasks' = IF t.pc = "settling"
                           THEN Enqueue(microtasks, <<"settle", id>>)
                           ELSE microtasks
  /\ UNCHANGED <<envVars, currentInitData, currentInitDataSource, initData,
                 initDataSource, timestamp, isChecking, inflightRef, nTasks, refreshCalls,
                 nRefreshCalls, tokenVars, gateVars, calls, nCalls, effectDeps,
                 userVars, nRefreshAuth, watchVars>>
  /\ newJob

\* a provider whose timestamp stays the one taken at mount
setTimestampKeeps(value) == timestamp' = timestamp

\* setTimestamp of the provider's useState
setTimestamp(value) == timestamp' = value

\* the rest of the task after `await retryInitData(...)`, then its finally
settleRefresh ==
  /\ microtasks # <<>>
  /\ Head(microtasks)[1] = "settle"
  /\ LET id == Head(microtasks)[2]
     IN /\ setCurrentInitData(tasks[id].value, tasks[id].source)
        /\ initData' = tasks[id].value
        /\ initDataSource' = tasks[id].source
        /\ setTimestamp(DateNow)
        /\ isChecking' = FALSE
        /\ inflightRef' = 0
        /\ tasks' = [tasks EXCEPT ![id].pc = "done"]
  /\ microtasks' = Tail(microtasks)
  /\ UNCHANGED <<envVars, nTasks, refreshCalls, nRefreshCalls, tokenVars, gateVars,
                 clientVars, effectDeps, userVars, authResult, nRefreshAuth, watchVars>>

\* wall-clock time passes: Date.now() reads a larger number from here on
timePasses ==
  /\ microtasks = <<>>
  /\ clock < MaxClock
  /\ clock' = clock + 1
  /\ UNCHANGED <<tgInitData, urlSearch, urlHash, hostWrites, resolverVars, tokenVars, gateVars,
                 clientVars, effectDeps, microtasks, userVars, authResult, nRefreshAuth,
                 watchVars>>

\* the embedding host fills or clears its native channel, or a navigation
\* replaces the URL and with it the query and fragment parameters
hostEnvironment ==
  /\ microtasks = <<>>
  /\ hostWrites < MaxHostWrites
  /\ hostWrites' = hostWrites + 1
  /\ \/ /\ tgInitData' \in TgValues \ {tgInitData}
        /\ UNCHANGED <<urlSearch, urlHash>>
     \/ /\ <<urlSearch, urlHash>> # <<"", "">>
        /\ urlSearch' = ""
        /\ urlHash' = ""
        /\ UNCHANGED tgInitData
  /\ newJob
  /\ UNCHANGED <<clock, resolverVars, tokenVars, gateVars, calls, nCalls, effectDeps, microtasks,
                 userVars, nRefreshAuth, watchVars>>


\* ------------------------------------------------------ token storage
getDevUserId == devUserId

\* getAuthToken returns the in-memory token, else the stored one (which it
\* then caches in memory)
getAuthToken == IF authToken # Null THEN authToken ELSE lsToken

setAuthToken(token) ==
  /\ authToken' = token
  /\ lsToken' = token

getAuthHeaders ==
  IF getAuthToken # Null THEN "Authorization"
  ELSE IF getDevUserId # Null THEN "X-Dev-User-Id"
  ELSE "none"

\* ------------------------------------------------------------ auth gate
\* a deferred that releases only its first subscriber
WaitersFirstOnly(d) ==
  LET IsWaiter(c) == calls[c].pc = "gate" /\ calls[c].awaited = d
      w == SelectSeq([i \in CallIds |-> i], IsWaiter)
  IN IF w = <<>> THEN w ELSE <<Head(w)>>

\* the callers suspended on deferred d, in the order they subscribed
Waiters(d) ==
  LET IsWaiter(c) == calls[c].pc = "gate" /\ calls[c].awaited = d
  IN SelectSeq([i \in CallIds |-> i], IsWaiter)

\* deferred.resolve(): queues the continuation of every subscriber, once
deferredResolve(q) ==
  IF deferred \in resolved THEN q
  ELSE LET w == Waiters(deferred)
       IN q \o [i \in 1..Len(w) |-> <<"wake", w[i]>>]

resetAuthGate ==
  /\ authStatus' = "pending"
  /\ deferred' = deferred + 1
  /\ UNCHANGED <<resolved, marks>>

markAuth(status, q) ==
  /\ authStatus' = status
  /\ marks' = [marks EXCEPT ![deferred] = Append(@, status)]
  /\ resolved' = resolved \cup {deferred}
  /\ microtasks' = deferredResolve(q)
  /\ UNCHANGED deferred

markAuthReady(q) == markAuth("ready", q)
markAuthMissing(q) == markAuth("missing", q)
\* a catch block that ends without telling the gate
markAuthFailedSilent(q) ==
  /\ microtasks' = q
  /\ UNCHANGED <<authStatus, marks, resolved, deferred>>

markAuthFailed(q) == markAuth("failed", q)

\* a gate that reports a rejected attempt with the error of a missing identity
waitForAuthReadyConflated(status) ==
  IF status = "ready" THEN "ok"
  ELSE IF status \in {"missing", "failed"} THEN "auth_missing"
  ELSE "suspend"

\* waitForAuthReady up to its await: the result for a settled gate, or
\* "suspend" when it has to await deferred.promise
waitForAuthReady(status) ==
  IF status = "ready" THEN "ok"
  ELSE IF status = "missing" THEN "auth_missing"
  ELSE IF status = "failed" THEN "auth_failed"
  ELSE "suspend"

\* a gate that does not look at the status again once the promise resolved
waitForAuthReadyNoRecheck(status) == "ok"

\* waitForAuthReady after deferred.promise has resolved
waitForAuthReadyResumed(status) ==
  IF status # "ready"
    THEN (IF status = "missing" THEN "auth_missing" ELSE "auth_failed")
    ELSE "ok"

\* ------------------------------------------------------------ API client
\* the headers are built and fetch() is called
sendRequest(rec) == [rec EXCEPT !.pc = "fetching", !.hdr = getAuthHeaders]

needsGate(requiresAuth, token, devId) ==
  requiresAuth /\ token = Null /\ devId = Null

\* an apiFetch that goes to the gate without looking at the identity first
apiFetchStartNoIdentityCheck(path, requiresAuth) ==
  LET base == [NoCall EXCEPT !.path = path, !.requiresAuth = requiresAuth,
                 !.noCred = (getAuthToken = Null /\ getDevUserId = Null)]
      g == waitForAuthReady(authStatus)
  IN IF requiresAuth /\ getAuthToken = Null /\ getDevUserId = Null
       THEN IF g = "ok"
              THEN [base EXCEPT !.pc = "passed", !.gate = "ok"]
            ELSE IF g = "suspend"
              THEN [base EXCEPT !.pc = "gate", !.gate = "waiting", !.awaited = deferred]
            ELSE [base EXCEPT !.pc = "done", !.gate = g, !.outcome = g]
       ELSE [base EXCEPT !.pc = "fetching", !.hdr = getAuthHeaders]

\* apiFetch from its entry to its first await (or to fetch())
apiFetchStart(path, requiresAuth) ==
  LET base == [NoCall EXCEPT !.path = path, !.requiresAuth = requiresAuth,
                 !.noCred = (getAuthToken = Null /\ getDevUserId = Null)]
      g == waitForAuthReady(authStatus)
  IN IF needsGate(requiresAuth, getAuthToken, getDevUserId)
       THEN IF currentInitData = ""
              THEN [base EXCEPT !.pc = "done", !.outcome = "auth_missing"]
            ELSE IF g = "ok"
              THEN [base EXCEPT !.pc = "passed", !.gate = "ok"]
            ELSE IF g = "suspend"
              THEN [base EXCEPT !.pc = "gate", !.gate = "waiting", !.awaited = deferred]
            ELSE [base EXCEPT !.pc = "done", !.gate = g, !.outcome = g]
       ELSE sendRequest(base)

\* the microtask an apiFetch call leaves behind at its first await
apiFetchPending(c, rec, q) ==
  IF rec.pc = "passed" THEN Enqueue(q, <<"proceed", c>>)
  ELSE IF rec.pc = "gate" /\ rec.awaited \in resolved THEN Enqueue(q, <<"wake", c>>)
  ELSE q

\* call c takes record rec; if that ends it, the running job holds the record
callBecomes(c, rec) ==
  IF rec.pc = "done"
    THEN /\ calls' = [calls EXCEPT ![c] = DoneCall]
         /\ settled' = [call |-> c, rec |-> rec]
    ELSE /\ calls' = [calls EXCEPT ![c] = rec]
         /\ UNCHANGED settled

\* a component calls one of the api.* operations other than authWebapp
apiFetch(requiresAuth) ==
  /\ microtasks = <<>>
  /\ nCalls - deferred < MaxApiCalls   \* every call but these is an authWebapp
  /\ LET c == nCalls + 1
         rec == apiFetchStart("api", requiresAuth)
     IN /\ nCalls' = c
        /\ IF rec.pc = "done"
             THEN callBecomes(c, rec)
             ELSE calls' = [calls EXCEPT ![c] = rec] /\ settled' = NoSettled
        /\ microtasks' = apiFetchPending(c, rec, microtasks)
  /\ authToken' = getAuthToken
  /\ response' = NoResponse
  /\ authResult' = "none"
  /\ UNCHANGED <<envVars, resolverVars, lsToken, devUserId, gateVars, effectDeps,
                 userVars, nRefreshAuth, watchVars>>

\* the continuation of apiFetch after `await waitForAuthReady()`
apiFetchResume ==
  /\ microtasks # <<>>
  /\ Head(microtasks)[1] \in {"wake", "proceed"}
  /\ LET c == Head(microtasks)[2]
         g == IF Head(microtasks)[1] = "wake"
                THEN waitForAuthReadyResumed(authStatus) ELSE "ok"
     IN callBecomes(c, IF g = "ok" THEN sendRequest([calls[c] EXCEPT !.gate = "ok"])
                       ELSE [calls[c] EXCEPT !.pc = "done", !.gate = g, !.outcome = g])
  /\ authToken' = getAuthToken
  /\ microtasks' = Tail(microtasks)
  /\ UNCHANGED <<envVars, resolverVars, lsToken, devUserId, gateVars, nCalls,
                 response, effectDeps, userVars, authResult, nRefreshAuth, watchVars>>

\* the responses of the backend: success (with or without an issued token on
\* /auth/webapp), a server error, a rejection with one of the details
Responses(path) ==
  [status : {200}, detail : {Null},
   token : IF path = "webapp" THEN {Null, "t1"} ELSE {Null},
   premium_until : IF path = "webapp" THEN PremiumValues ELSE {Null}]
  \cup [status : {500}, detail : {Null}, token : {Null}, premium_until : {Null}]
  \cup [status : {401, 403}, detail : TokenDetails \cup OtherDetails, token : {Null},
        premium_until : {Null}]

\* one response of each kind the gate and the stored token can tell apart:
\* /auth/webapp succeeds with or without a token or fails; any other call
\* succeeds or is rejected with a detail that clears the token
CoarseResponses(path) ==
  {r \in Responses(path) :
     \/ r.status = 200 /\ r.premium_until = Null
     \/ r.status = 401 /\ r.detail = (IF path = "webapp" THEN Null ELSE "token_expired")}

\* a client that drops the token on every rejection
clearsTokenOnAnyRejection(resp) == resp.status \in {401, 403}

clearsToken(resp) ==
  resp.status \in {401, 403} /\ resp.detail \in TokenDetails

\* what apiFetch makes of a response
apiFetchOutcome(resp) ==
  IF resp.status \in {401, 403} THEN "auth_error"
  ELSE IF resp.status \notin 200..299 THEN "api_error"
  ELSE "ok"

\* fetch() settles with a response and apiFetch runs to its end
apiFetchResponse(c, resp) ==
  /\ microtasks = <<>>
  /\ calls[c].pc = "fetching"
  /\ callBecomes(c, [calls[c] EXCEPT !.pc = "done", !.outcome = apiFetchOutcome(resp)])
  /\ response' = [call |-> c, status |-> resp.status, detail |-> resp.detail,
                  token |-> resp.token, premium_until |-> resp.premium_until]
  /\ authResult' = "none"
  /\ IF clearsToken(resp) THEN setAuthToken(Null) ELSE UNCHANGED <<authToken, lsToken>>
  /\ microtasks' = IF calls[c].path = "webapp"
                     THEN Enqueue(microtasks, <<"authcont", c>>) ELSE microtasks
  /\ UNCHANGED <<envVars, resolverVars, devUserId, gateVars, nCalls, effectDeps,
                 userVars, nRefreshAuth, watchVars>>

\* ------------------------------------------------------ UserData provider
initDataLen == Len(initData)

\* new Date(premium_until) > new Date()
isFuture(premium_until) == premium_until = "future"

\* the AuthResponse the client hands to refreshAuth
AuthData(resp) ==
  [id |-> "u", access_token |-> resp.token, premium_until |-> resp.premium_until]

\* useState<AuthResponse | null>(null): no user recorded
NoUser == [id |-> Null, access_token |-> Null, premium_until |-> Null]

\* a refreshAuth that goes to the network whatever the identity is
refreshAuthAlwaysCalls ==
  /\ deferred < MaxAuthCalls
  /\ resetAuthGate
  /\ nCalls' = nCalls + 1
  /\ calls' = [calls EXCEPT ![nCalls + 1] = apiFetchStart("webapp", FALSE)]
  /\ authToken' = getAuthToken
  /\ authResult' = "none"
  /\ UNCHANGED <<microtasks, userVars>>

\* refreshAuth up to `await api.authWebapp(storedRef)`: with an empty identity
\* it marks the gate missing, forgets the user and returns
refreshAuth ==
  IF initDataLen = 0
    THEN /\ markAuthMissing(microtasks)
         /\ user' = NoUser
         /\ premiumUntil' = Null
         /\ premiumActive' = FALSE
         /\ authResult' = "returned"
         /\ UNCHANGED <<calls, nCalls, authToken>>
    ELSE /\ deferred < MaxAuthCalls
         /\ resetAuthGate
         /\ nCalls' = nCalls + 1
         /\ calls' = [calls EXCEPT ![nCalls + 1] = apiFetchStart("webapp", FALSE)]
         /\ authToken' = getAuthToken
         /\ authResult' = "none"
         /\ UNCHANGED <<microtasks, userVars>>

\* a try block that fills the fields the new response leaves out from the
\* user it had
refreshAuthTryMerges(q) ==
  /\ setAuthToken(response.token)
  /\ user' = IF user # NoUser /\ response.premium_until = Null
               THEN [AuthData(response) EXCEPT !.premium_until = user.premium_until]
               ELSE AuthData(response)
  /\ premiumUntil' = response.premium_until
  /\ premiumActive' = (response.premium_until # Null /\ isFuture(response.premium_until))
  /\ markAuthReady(q)
  /\ authResult' = "returned"

\* the .then of api.authWebapp and the rest of the try block of refreshAuth
refreshAuthTry(q) ==
  /\ setAuthToken(response.token)
  /\ user' = AuthData(response)
  /\ premiumUntil' = response.premium_until
  /\ premiumActive' = (response.premium_until # Null /\ isFuture(response.premium_until))
  /\ markAuthReady(q)
  /\ authResult' = "returned"

\* a catch block that leaves the stored token in place
refreshAuthCatchKeepsToken(q) ==
  /\ UNCHANGED <<authToken, lsToken>>
  /\ markAuthFailed(q)
  /\ authResult' = "threw"
  /\ UNCHANGED userVars

\* the catch block of refreshAuth
refreshAuthCatch(q) ==
  /\ setAuthToken(Null)
  /\ markAuthFailed(q)
  /\ authResult' = "threw"
  /\ UNCHANGED userVars

\* refreshAuth after api.authWebapp has settled
refreshAuthSettled ==
  /\ microtasks # <<>>
  /\ Head(microtasks)[1] = "authcont"
  /\ IF settled.rec.outcome = "ok"
       THEN refreshAuthTry(Tail(microtasks))
       ELSE refreshAuthCatch(Tail(microtasks))
  /\ UNCHANGED <<envVars, resolverVars, devUserId, clientVars, effectDeps, nRefreshAuth, watchVars>>

\* a component calls the refreshAuth of the UserData context
refreshAuthCall ==
  /\ microtasks = <<>>
  /\ effectDeps = <<initDataLen, initDataSource>>
  /\ nRefreshAuth < MaxRefreshAuth
  /\ nRefreshAuth' = nRefreshAuth + 1
  /\ refreshAuth
  /\ response' = NoResponse
  /\ settled' = NoSettled
  /\ UNCHANGED <<envVars, resolverVars, lsToken, devUserId, effectDeps, watchVars>>

\* the effect of UserDataProvider, run after the first render and after every
\* render in which initDataLen or refreshAuth (initDataLen, initDataSource)
\* differs from the previous run
providerEffect ==
  /\ microtasks = <<>>
  /\ effectDeps # <<initDataLen, initDataSource>>
  /\ effectDeps' = <<initDataLen, initDataSource>>
  /\ IF initDataLen > 0
       THEN refreshAuth
     ELSE IF getAuthToken # Null
       THEN /\ markAuthReady(microtasks)
            /\ authToken' = getAuthToken
            /\ authResult' = "none"
            /\ UNCHANGED <<calls, nCalls, userVars>>
     ELSE /\ markAuthMissing(microtasks)
          /\ authToken' = getAuthToken
          /\ authResult' = "none"
          /\ UNCHANGED <<calls, nCalls, userVars>>
  /\ response' = NoResponse
  /\ settled' = NoSettled
  /\ UNCHANGED <<envVars, resolverVars, lsToken, devUserId, nRefreshAuth, watchVars>>

\* ------------------------------------------------------- watch flow state
TitleId == "t1"
ResolveIds == 1..MaxResolve
WatchIds == 1..MaxWatch
AdsStartIds == 1..MaxAdsStart
ContinueIds == 1..MaxContinue

\* WatchRequestPayload | null
NoParams == [title_id |-> Null, episode_id |-> Null, audio_id |-> Null, quality_id |-> Null]

\* a message is the sequence of the pieces its text is put together from
initialState == [status |-> "idle", params |-> NoParams, variantId |-> Null, message |-> <<>>]

\* a reducer whose reset keeps the stored variant
reducerResetKeepsVariant(st, action) ==
  CASE action.type = "set_params" -> [st EXCEPT !.params = action.payload]
    [] action.type = "request_start" -> [st EXCEPT !.status = "requesting", !.message = <<>>]
    [] action.type = "ad_gate" ->
         [st EXCEPT !.status = "ad_gate", !.variantId = action.variantId]
    [] action.type = "dispatching" ->
         [st EXCEPT !.status = "dispatching", !.variantId = action.variantId]
    [] action.type = "queued" ->
         [st EXCEPT !.status = "queued", !.variantId = action.variantId]
    [] action.type = "error" -> [st EXCEPT !.status = "error", !.message = action.message]
    [] action.type = "ads_cooldown" ->
         [st EXCEPT !.status = "ads_cooldown", !.message = action.message]
    [] action.type = "reset" -> [initialState EXCEPT !.variantId = st.variantId]
    [] OTHER -> st

reducer(st, action) ==
  CASE action.type = "set_params" -> [st EXCEPT !.params = action.payload]
    [] action.type = "request_start" -> [st EXCEPT !.status = "requesting", !.message = <<>>]
    [] action.type = "ad_gate" ->
         [st EXCEPT !.status = "ad_gate", !.variantId = action.variantId]
    [] action.type = "dispatching" ->
         [st EXCEPT !.status = "dispatching", !.variantId = action.variantId]
    [] action.type = "queued" ->
         [st EXCEPT !.status = "queued", !.variantId = action.variantId]
    [] action.type = "error" -> [st EXCEPT !.status = "error", !.message = action.message]
    [] action.type = "ads_cooldown" ->
         [st EXCEPT !.status = "ads_cooldown", !.message = action.message]
    [] action.type = "reset" -> initialState
    [] OTHER -> st

\* the actions the pages dispatch
set_params(payload) == [type |-> "set_params", payload |-> payload]
request_start == [type |-> "request_start"]
ad_gate(variantId) == [type |-> "ad_gate", variantId |-> variantId]
dispatching(variantId) == [type |-> "dispatching", variantId |-> variantId]
queued(variantId) == [type |-> "queued", variantId |-> variantId]
\* an error action that carries a fixed text in place of the failure's message
errorGeneric(message) == [type |-> "error", message |-> <<"error">>]

error(message) == [type |-> "error", message |-> message]
ads_cooldown(message) == [type |-> "ads_cooldown", message |-> message]
reset == [type |-> "reset"]

\* the watch flow states and the actions of WatchAction over the ids of the model
WatchStatus == {"idle", "requesting", "ad_gate", "dispatching", "queued", "error",
                "ads_cooldown"}
Payloads == [title_id : {TitleId}, episode_id : {Null}, audio_id : AudioIds,
             quality_id : {"q1"}]
Messages == {<<>>, <<"server_error">>}
WatchStates ==
  [status : WatchStatus, params : Payloads \cup {NoParams},
   variantId : VariantIds \cup {Null}, message : Messages]
WatchActions ==
  {set_params(payload) : payload \in Payloads}
  \cup {request_start, reset}
  \cup {ad_gate(v) : v \in VariantIds}
  \cup {dispatching(v) : v \in VariantIds}
  \cup {queued(v) : v \in VariantIds}
  \cup {error(m) : m \in Messages \ {<<>>}}
  \cup {ads_cooldown(m) : m \in Messages \ {<<>>}}

\* --------------------------------------------------------------- TitlePage
NoTitle == [type |-> Null, available_audio_ids |-> <<>>, available_quality_ids |-> <<>>]
NoSelection == [audioId |-> Null, qualityId |-> Null]
\* `stored` is what local storage held when the step that made the call began
NoResolve == [pc |-> "none", episode_id |-> Null, audio_id |-> Null, quality_id |-> Null,
              stored |-> <<Null, Null>>]
NoWatch == [pc |-> "none", episode_id |-> Null, audio_id |-> Null, quality_id |-> Null,
            variantId |-> Null]

\* list[0] ?? null and a ?? b
first(list) == IF list = <<>> THEN Null ELSE list[1]
orElse(a, b) == IF a # Null THEN a ELSE b
Elements(list) == {list[i] : i \in 1..Len(list)}

\* the responses to GET /title/:id and GET /title/:id/episodes
TitleResponses ==
  [ok : {TRUE}, type : {"movie", "series"},
   available_audio_ids : {<<>>, <<"a1", "a2">>},
   available_quality_ids : {<<>>, <<"q1", "q2">>}]
  \cup {[ok |-> FALSE, type |-> Null, available_audio_ids |-> <<>>,
         available_quality_ids |-> <<>>]}

EpisodesResponses ==
  [ok : {TRUE}, episodes : {<<>>, <<"e1", "e2", "e3">>}]
  \cup {[ok |-> FALSE, episodes |-> <<>>]}

\* the responses to POST /watch/resolve for a payload: the variant asked for,
\* the server's first variant, or a failure
ResolveResponses(payload) ==
  [outcome : {"ok"}, audio_id : {orElse(payload.audio_id, "a1"), "a1"},
   quality_id : {orElse(payload.quality_id, "q1"), "q1"}]
  \cup [outcome : {"variant_not_found", "server_error"}, audio_id : {Null}, quality_id : {Null}]

\* the guard resolveSelection, handleWatch and the resolve effect share
selectionReady(t, ep) == t.type # Null /\ ~(t.type = "series" /\ ep = Null)
episodeOf(t, ep) == IF t.type = "series" THEN ep ELSE Null

\* resolveSelection up to `await api.watchResolve(...)`
resolveSelection(t, ep, a, q) ==
  IF selectionReady(t, ep)
    THEN /\ nResolve < MaxResolve
         /\ nResolve' = nResolve + 1
         /\ resolves' = [resolves EXCEPT ![nResolve + 1] =
                           [pc |-> "flying", episode_id |-> episodeOf(t, ep),
                            audio_id |-> a, quality_id |-> q,
                            stored |-> <<lsAudio, lsQuality>>]]
    ELSE UNCHANGED resolveVars

\* the effect on [title, selectedEpisodeId], for the render that shows t and ep
resolveEffect(t, ep, a, q) ==
  IF (t # title \/ ep # selectedEpisodeId) /\ selectionReady(t, ep)
       /\ ~(a = Null /\ q = Null)
    THEN resolveSelection(t, ep, a, q)
    ELSE UNCHANGED resolveVars

\* api.getTitle settles: the rest of loadTitle, then the effects of the render
loadTitle(resp) ==
  /\ titleCall = "flying"
  /\ titleCall' = "done"
  /\ IF resp.ok
       THEN LET t == [type |-> resp.type,
                      available_audio_ids |-> resp.available_audio_ids,
                      available_quality_ids |-> resp.available_quality_ids]
                a == orElse(lsAudio, first(resp.available_audio_ids))
                q == orElse(lsQuality, first(resp.available_quality_ids))
            IN /\ title' = t
               /\ audioId' = a
               /\ qualityId' = q
               /\ episodesCall' = IF t.type = "series" THEN "flying" ELSE episodesCall
               /\ resolveEffect(t, selectedEpisodeId, a, q)
       ELSE UNCHANGED <<title, audioId, qualityId, episodesCall, resolveVars>>
  /\ UNCHANGED <<authVars, flowVars, episodes, selectedEpisodeId, resolveStatus,
                 resolvedSelection, prefVars, adVars, watchCallVars, adsStartVars,
                 continueVars>>

\* api.getEpisodes settles: the rest of loadEpisodes, then the resolve effect
loadEpisodes(resp) ==
  /\ episodesCall = "flying"
  /\ episodesCall' = "done"
  /\ IF resp.ok
       THEN /\ episodes' = resp.episodes
            /\ selectedEpisodeId' = first(resp.episodes)
            /\ resolveEffect(title, first(resp.episodes), audioId, qualityId)
       ELSE UNCHANGED <<episodes, selectedEpisodeId, resolveVars>>
  /\ UNCHANGED <<authVars, flowVars, title, titleCall, audioId, qualityId, resolveStatus,
                 resolvedSelection, prefVars, adVars, watchCallVars, adsStartVars,
                 continueVars>>

\* episodes.findIndex((episode) => episode.id === id), positions from 0
findIndex(list, id) ==
  IF \E p \in 1..Len(list) : list[p] = id
    THEN (CHOOSE p \in 1..Len(list) :
            list[p] = id /\ \A r \in 1..(p - 1) : list[r] # id) - 1
    ELSE -1

\* a goEpisode that goes round from the last episode to the first and back
goEpisodeWraps(direction) ==
  /\ route = "title"
  /\ title.type = "series"
  /\ LET episodeIndex == IF selectedEpisodeId = Null THEN -1
                         ELSE findIndex(episodes, selectedEpisodeId)
         targetIndex == IF direction = "prev" THEN episodeIndex - 1 ELSE episodeIndex + 1
         wrapped == targetIndex % Len(episodes)
     IN IF episodeIndex # -1
          THEN /\ selectedEpisodeId' = episodes[wrapped + 1]
               /\ resolveEffect(title, episodes[wrapped + 1], audioId, qualityId)
          ELSE UNCHANGED <<selectedEpisodeId, resolveVars>>
  /\ UNCHANGED <<authVars, flowVars, title, titleCall, episodes, episodesCall, audioId,
                 qualityId, resolveStatus, resolvedSelection, prefVars, adVars,
                 watchCallVars, adsStartVars, continueVars>>

\* the Prev and Next buttons: goEpisode, then the resolve effect of the render
goEpisode(direction) ==
  /\ route = "title"
  /\ title.type = "series"
  /\ LET episodeIndex == IF selectedEpisodeId = Null THEN -1
                         ELSE findIndex(episodes, selectedEpisodeId)
         targetIndex == IF direction = "prev" THEN episodeIndex - 1 ELSE episodeIndex + 1
     IN IF episodeIndex # -1 /\ targetIndex >= 0 /\ targetIndex < Len(episodes)
          THEN /\ selectedEpisodeId' = episodes[targetIndex + 1]
               /\ resolveEffect(title, episodes[targetIndex + 1], audioId, qualityId)
          ELSE UNCHANGED <<selectedEpisodeId, resolveVars>>
  /\ UNCHANGED <<authVars, flowVars, title, titleCall, episodes, episodesCall, audioId,
                 qualityId, resolveStatus, resolvedSelection, prefVars, adVars,
                 watchCallVars, adsStartVars, continueVars>>

persistNumber(value) == value

\* onChange of the audio select
selectAudio(nextAudioId) ==
  /\ route = "title"
  /\ nextAudioId \in Elements(title.available_audio_ids)
  /\ nextAudioId # audioId
  /\ audioId' = nextAudioId
  /\ lsAudio' = persistNumber(nextAudioId)
  /\ resolveSelection(title, selectedEpisodeId, nextAudioId, qualityId)
  /\ UNCHANGED <<authVars, flowVars, title, titleCall, episodes, episodesCall,
                 selectedEpisodeId, qualityId, resolveStatus, resolvedSelection,
                 lsQuality, adVars, watchCallVars, adsStartVars, continueVars>>

\* onChange of the quality select
selectQuality(nextQualityId) ==
  /\ route = "title"
  /\ nextQualityId \in Elements(title.available_quality_ids)
  /\ nextQualityId # qualityId
  /\ qualityId' = nextQualityId
  /\ lsQuality' = persistNumber(nextQualityId)
  /\ resolveSelection(title, selectedEpisodeId, audioId, nextQualityId)
  /\ UNCHANGED <<authVars, flowVars, title, titleCall, episodes, episodesCall,
                 selectedEpisodeId, audioId, resolveStatus, resolvedSelection,
                 lsAudio, adVars, watchCallVars, adsStartVars, continueVars>>

\* api.watchResolve of resolveSelection settles; a page that is no longer
\* shown keeps no state, local storage is written all the same
resolveSelectionSettled(i, resp) ==
  /\ resolves[i].pc = "flying"
  /\ resolves' = [resolves EXCEPT ![i] = [NoResolve EXCEPT !.pc = "done"]]
  /\ IF resp.outcome = "ok"
       THEN /\ lsAudio' = persistNumber(resp.audio_id)
            /\ lsQuality' = persistNumber(resp.quality_id)
            /\ IF route = "title"
                 THEN /\ resolveStatus' = "available"
                      /\ resolvedSelection' =
                           [audioId |-> resp.audio_id, qualityId |-> resp.quality_id]
                      /\ audioId' = resp.audio_id
                      /\ qualityId' = resp.quality_id
                 ELSE UNCHANGED <<resolveStatus, resolvedSelection, audioId, qualityId>>
       ELSE /\ UNCHANGED <<prefVars, audioId, qualityId>>
            /\ IF route # "title"
                 THEN UNCHANGED <<resolveStatus, resolvedSelection>>
               ELSE IF resp.outcome = "variant_not_found"
                 THEN resolveStatus' = "unavailable" /\ resolvedSelection' = NoSelection
               ELSE resolveStatus' = Null /\ UNCHANGED resolvedSelection
  /\ UNCHANGED <<authVars, flowVars, title, titleCall, episodes, episodesCall,
                 selectedEpisodeId, nResolve, adVars, watchCallVars, adsStartVars,
                 continueVars>>

\* the responses to POST /watch/request, /watch/dispatch, /ads/start and
\* /ads/complete; a failed call carries the message of the error apiFetch throws
WatchResponses ==
  [outcome : {"ok"}, mode : {"direct", "ad_gate"}, variant_id : VariantIds]
  \cup {[outcome |-> "server_error", mode |-> Null, variant_id |-> Null]}

\* POST /watch/dispatch answers {queued: boolean}
DispatchResponses ==
  [outcome : {"ok"}, queued : BOOLEAN] \cup {[outcome |-> "server_error", queued |-> Null]}

AdsStartResponses ==
  {[outcome |-> "ok", retry_after |-> Null], [outcome |-> "server_error", retry_after |-> Null]}
  \cup [outcome : {"ad_cooldown"}, retry_after : RetryAfterValues]

AdsCompleteResponses == {[outcome |-> "ok"], [outcome |-> "server_error"]}

\* ------------------------------------------------------------------ AdPage
NoAdsStart == [pc |-> "none", variantId |-> Null]
NoContinue == [pc |-> "none", nonce |-> 0, params |-> NoParams, variantId |-> Null]
NoCooldown == <<>>

\* the text AdPage shows for a cooldown
cooldownText(retryAfter) ==
  IF retryAfter \notin {Null, "0"}
    THEN <<"ad was shown recently, retry", "in", retryAfter, "sec">>
    ELSE <<"ad was shown recently, retry", "later">>

\* the page the router shows after a job that asked for `target` and left the
\* watch flow in st, with the startAds effect of AdPage: it runs when AdPage
\* mounts and when state.variantId differs from the one of the last render
adPageEffect(target, st) ==
  IF target = "ad" /\ (route # "ad" \/ st.variantId # state.variantId)
    THEN IF st.variantId = Null
           THEN route' = "home" /\ UNCHANGED adsStartVars
           ELSE /\ route' = target
                /\ nAdsStart < Len(adsStarts)
                /\ nAdsStart' = nAdsStart + 1
                /\ adsStarts' = [adsStarts EXCEPT ![nAdsStart + 1] =
                                   [pc |-> "flying", variantId |-> st.variantId]]
    ELSE route' = target /\ UNCHANGED adsStartVars

\* AdPage mounts with fresh state
mountAdPage ==
  /\ nonce' = 0
  /\ secondsLeft' = AD_TIMER_SECONDS
  /\ cooldownMessage' = NoCooldown
  /\ completed' = FALSE

\* the Watch button: handleWatch up to `await api.watchResolve(...)`
handleWatch ==
  /\ route = "title"
  /\ selectionReady(title, selectedEpisodeId)
  /\ audioId # Null /\ qualityId # Null
  /\ nWatch < MaxWatch
  /\ nWatch' = nWatch + 1
  /\ watches' = [watches EXCEPT ![nWatch + 1] =
                   [pc |-> "resolve", episode_id |-> episodeOf(title, selectedEpisodeId),
                    audio_id |-> audioId, quality_id |-> qualityId, variantId |-> Null]]
  /\ UNCHANGED <<authVars, flowVars, titleVars, prefVars, adVars, resolveVars,
                 adsStartVars, continueVars>>

\* api.watchResolve of handleWatch settles: on success set_params,
\* request_start and the call of api.watchRequest
watchResolveSettled(i, resp) ==
  /\ watches[i].pc = "resolve"
  /\ IF resp.outcome = "ok"
       THEN LET payload == [title_id |-> TitleId, episode_id |-> watches[i].episode_id,
                            audio_id |-> resp.audio_id, quality_id |-> resp.quality_id]
            IN /\ state' = reducer(reducer(state, set_params(payload)), request_start)
               /\ watches' = [watches EXCEPT ![i] =
                                [pc |-> "request", episode_id |-> payload.episode_id,
                                 audio_id |-> payload.audio_id,
                                 quality_id |-> payload.quality_id, variantId |-> Null]]
               /\ IF route = "title"
                    THEN /\ resolvedSelection' =
                              [audioId |-> resp.audio_id, qualityId |-> resp.quality_id]
                         /\ resolveStatus' = "available"
                    ELSE UNCHANGED <<resolvedSelection, resolveStatus>>
       ELSE /\ state' = reducer(state, error(IF resp.outcome = "variant_not_found"
                                               THEN <<"the selected variant is unavailable">>
                                               ELSE <<"could not check the variant">>))
            /\ watches' = [watches EXCEPT ![i] = [NoWatch EXCEPT !.pc = "done"]]
            /\ resolveStatus' = IF route = "title" /\ resp.outcome = "variant_not_found"
                                  THEN "unavailable" ELSE resolveStatus
            /\ UNCHANGED resolvedSelection
  /\ adPageEffect(route, state')
  /\ UNCHANGED <<authVars, title, titleCall, episodes, episodesCall, selectedEpisodeId,
                 audioId, qualityId, prefVars, adVars, resolveVars, nWatch, continueVars>>

\* api.watchRequest of handleWatch settles: direct goes on to api.watchDispatch,
\* ad_gate stores the variant and navigates to /ad
watchRequestSettled(i, resp) ==
  /\ watches[i].pc = "request"
  /\ IF resp.outcome = "ok" /\ resp.mode = "direct"
       THEN /\ state' = reducer(state, dispatching(resp.variant_id))
            /\ watches' = [watches EXCEPT ![i].pc = "dispatch",
                                          ![i].variantId = resp.variant_id]
            /\ adPageEffect(route, state')
            /\ UNCHANGED adVars
     ELSE IF resp.outcome = "ok"
       THEN /\ state' = reducer(state, ad_gate(resp.variant_id))
            /\ watches' = [watches EXCEPT ![i] = [NoWatch EXCEPT !.pc = "done"]]
            /\ adPageEffect("ad", state')
            /\ IF route # "ad" THEN mountAdPage ELSE UNCHANGED adVars
     ELSE /\ state' = reducer(state, error(<<resp.outcome>>))
          /\ watches' = [watches EXCEPT ![i] = [NoWatch EXCEPT !.pc = "done"]]
          /\ adPageEffect(route, state')
          /\ UNCHANGED adVars
  /\ UNCHANGED <<authVars, titleVars, prefVars, resolveVars, nWatch, continueVars>>

\* a handleWatch whose catch block swallows a failed api.watchDispatch
watchDispatchSettledSilent(i, resp) ==
  /\ watches[i].pc = "dispatch"
  /\ state' = IF resp.outcome = "ok"
                THEN reducer(state, queued(watches[i].variantId))
                ELSE state
  /\ watches' = [watches EXCEPT ![i] = [NoWatch EXCEPT !.pc = "done"]]
  /\ adPageEffect(route, state')
  /\ UNCHANGED <<authVars, titleVars, prefVars, adVars, resolveVars, nWatch, continueVars>>

\* api.watchDispatch of handleWatch settles
watchDispatchSettled(i, resp) ==
  /\ watches[i].pc = "dispatch"
  /\ state' = IF resp.outcome = "ok"
                THEN reducer(state, queued(watches[i].variantId))
                ELSE reducer(state, error(<<resp.outcome>>))
  /\ watches' = [watches EXCEPT ![i] = [NoWatch EXCEPT !.pc = "done"]]
  /\ adPageEffect(route, state')
  /\ UNCHANGED <<authVars, titleVars, prefVars, adVars, resolveVars, nWatch, continueVars>>

\* api.adsStart settles: a nonce and a fresh countdown, or the cooldown notice
\* and ads_cooldown, or error
startAdsSettled(k, resp) ==
  /\ adsStarts[k].pc = "flying"
  /\ adsStarts' = [adsStarts EXCEPT ![k].pc = "done"]
  /\ IF resp.outcome = "ok"
       THEN /\ nonce' = k
            /\ secondsLeft' = AD_TIMER_SECONDS
            /\ UNCHANGED <<cooldownMessage, state>>
     ELSE IF resp.outcome = "ad_cooldown"
       THEN /\ cooldownMessage' = cooldownText(resp.retry_after)
            /\ state' = reducer(state, ads_cooldown(<<resp.outcome>>))
            /\ UNCHANGED <<nonce, secondsLeft>>
     ELSE /\ state' = reducer(state, error(<<resp.outcome>>))
          /\ UNCHANGED <<nonce, secondsLeft, cooldownMessage>>
  /\ UNCHANGED <<authVars, route, titleVars, prefVars, completed, resolveVars,
                 watchCallVars, nAdsStart, continueVars>>

\* the one-second timer of the countdown fires
tick ==
  /\ route = "ad"
  /\ nonce # 0 /\ cooldownMessage = NoCooldown
  /\ secondsLeft > 0
  /\ secondsLeft' = secondsLeft - 1
  /\ UNCHANGED <<authVars, flowVars, titleVars, prefVars, nonce, cooldownMessage,
                 completed, resolveVars, watchCallVars, adsStartVars, continueVars>>

\* the Back button of the cooldown notice: navigate(-1) shows TitlePage again,
\* a new instance with fresh state whose first effect calls api.getTitle;
\* WatchProvider stays mounted. Taken when no call of the earlier TitlePage
\* instance is still awaited.
goBack ==
  /\ route = "ad"
  /\ cooldownMessage # NoCooldown
  /\ \A i \in ResolveIds : resolves[i].pc # "flying"
  /\ \A i \in WatchIds : watches[i].pc # "resolve"
  /\ titleCall = "done" /\ episodesCall # "flying"
  /\ route' = "title"
  /\ title' = NoTitle
  /\ titleCall' = "flying"
  /\ episodes' = <<>>
  /\ episodesCall' = "none"
  /\ selectedEpisodeId' = Null
  /\ audioId' = Null
  /\ qualityId' = Null
  /\ resolveStatus' = Null
  /\ resolvedSelection' = NoSelection
  /\ UNCHANGED <<authVars, state, prefVars, adVars, resolveVars, watchCallVars,
                 adsStartVars, continueVars>>

canContinue ==
  secondsLeft <= 0 /\ nonce # 0 /\ ~completed /\ cooldownMessage = NoCooldown

\* the Continue button: handleContinue up to `await api.adsComplete(nonce)`
handleContinue ==
  /\ route = "ad"
  /\ canContinue
  /\ state.params # NoParams /\ state.variantId # Null
  /\ nContinue < MaxContinue
  /\ nContinue' = nContinue + 1
  /\ continues' = [continues EXCEPT ![nContinue + 1] =
                     [pc |-> "complete", nonce |-> nonce, params |-> state.params,
                      variantId |-> Null]]
  /\ UNCHANGED <<authVars, flowVars, titleVars, prefVars, adVars, resolveVars,
                 watchCallVars, adsStartVars>>

\* api.adsComplete settles: request_start and the replay of api.watchRequest
adsCompleteSettled(j, resp) ==
  /\ continues[j].pc = "complete"
  /\ IF resp.outcome = "ok"
       THEN /\ state' = reducer(state, request_start)
            /\ continues' = [continues EXCEPT ![j].pc = "request"]
       ELSE /\ state' = reducer(state, error(<<resp.outcome>>))
            /\ continues' = [continues EXCEPT ![j].pc = "done", ![j].params = NoParams]
  /\ adPageEffect(route, state')
  /\ UNCHANGED <<authVars, titleVars, prefVars, adVars, resolveVars, watchCallVars,
                 nContinue>>

\* the replayed api.watchRequest settles: dispatching and api.watchDispatch
continueRequestSettled(j, resp) ==
  /\ continues[j].pc = "request"
  /\ IF resp.outcome = "ok"
       THEN /\ state' = reducer(state, dispatching(resp.variant_id))
            /\ continues' = [continues EXCEPT ![j].pc = "dispatch",
                                              ![j].variantId = resp.variant_id]
       ELSE /\ state' = reducer(state, error(<<resp.outcome>>))
            /\ continues' = [continues EXCEPT ![j].pc = "done", ![j].params = NoParams]
  /\ adPageEffect(route, state')
  /\ UNCHANGED <<authVars, titleVars, prefVars, adVars, resolveVars, watchCallVars,
                 nContinue>>

\* api.watchDispatch of handleContinue settles: queued and completed
continueDispatchSettled(j, resp) ==
  /\ continues[j].pc = "dispatch"
  /\ IF resp.outcome = "ok"
       THEN /\ state' = reducer(state, queued(continues[j].variantId))
            /\ completed' = IF route = "ad" THEN TRUE ELSE completed
       ELSE /\ state' = reducer(state, error(<<resp.outcome>>))
            /\ UNCHANGED completed
  /\ continues' = [continues EXCEPT ![j].pc = "done", ![j].params = NoParams,
                                   ![j].variantId = Null]
  /\ adPageEffect(route, state')
  /\ UNCHANGED <<authVars, titleVars, prefVars, nonce, secondsLeft, cooldownMessage,
                 resolveVars, watchCallVars, nContinue>>

\* ------------------------------------------------------- the whole system
\* module load and the first render: TelegramInitDataProvider reads the
\* sources once and seeds the singleton and its state with what it found
InitIdentity ==
  /\ tgInitData \in TgValues
  /\ urlSearch \in SearchValues
  /\ urlHash \in HashValues
  /\ hostWrites = 0
  /\ clock = 0
  /\ timestamp = DateNow
  /\ currentInitData = readInitData.value
  /\ currentInitDataSource = readInitData.source
  /\ initData = readInitData.value
  /\ initDataSource = readInitData.source
  /\ isChecking = FALSE
  /\ inflightRef = 0
  /\ tasks = [i \in TaskIds |-> NoTask]
  /\ nTasks = 0
  /\ refreshCalls = {}
  /\ nRefreshCalls = 0
  /\ authToken = Null
  /\ lsToken \in {Null, "t0"}
  /\ devUserId \in {Null, "dev"}
  /\ authStatus = "pending"
  /\ deferred = 0
  /\ resolved = {}
  /\ marks = [d \in DeferredIds |-> <<>>]
  /\ calls = [c \in CallIds |-> NoCall]
  /\ nCalls = 0
  /\ response = NoResponse
  /\ settled = NoSettled
  /\ effectDeps = <<-1, "unmounted">>
  /\ microtasks = <<>>
  /\ user = NoUser
  /\ premiumUntil = Null
  /\ premiumActive = FALSE
  /\ authResult = "none"
  /\ nRefreshAuth = 0

\* the first render of TitlePage under WatchFlowProvider: api.getTitle is on
\* its way, nothing is selected, no handler has run
InitPageLocal ==
  /\ route = "title"
  /\ title = NoTitle
  /\ titleCall = "flying"
  /\ episodes = <<>>
  /\ episodesCall = "none"
  /\ selectedEpisodeId = Null
  /\ audioId = Null
  /\ qualityId = Null
  /\ resolveStatus = Null
  /\ resolvedSelection = NoSelection
  /\ nonce = 0
  /\ secondsLeft = AD_TIMER_SECONDS
  /\ cooldownMessage = NoCooldown
  /\ completed = FALSE
  /\ resolves = [i \in ResolveIds |-> NoResolve]
  /\ nResolve = 0
  /\ watches = [i \in WatchIds |-> NoWatch]
  /\ nWatch = 0
  /\ nAdsStart = 0
  /\ continues = [j \in ContinueIds |-> NoContinue]
  /\ nContinue = 0

InitPage ==
  /\ InitPageLocal
  /\ adsStarts = [k \in AdsStartIds |-> NoAdsStart]
  /\ state = initialState

\* a browser whose local storage holds no preference
Init == InitIdentity /\ InitPage /\ lsAudio = Null /\ lsQuality = Null

Next ==
  \/ hostEnvironment
  \/ refreshInitData
  \/ \E id \in TaskIds : retryInitData(id)
  \/ settleRefresh
  \/ \E requiresAuth \in BOOLEAN : apiFetch(requiresAuth)
  \/ apiFetchResume
  \/ \E c \in CallIds : \E resp \in CoarseResponses(calls[c].path) :
        apiFetchResponse(c, resp)
  \/ refreshAuthSettled
  \/ providerEffect

InitAuth == Init /\ urlHash = ""

Spec == InitAuth /\ [][Next]_vars

\* the client, the gate and the provider with the identity the page loaded
\* with, against every response
NextClient ==
  \/ \E requiresAuth \in BOOLEAN : apiFetch(requiresAuth)
  \/ apiFetchResume
  \/ \E c \in CallIds : \E resp \in Responses(calls[c].path) : apiFetchResponse(c, resp)
  \/ refreshAuthSettled
  \/ providerEffect

SpecClient == Init /\ [][NextClient]_vars

\* the resolver on its own
InitResolver == Init /\ lsToken = Null /\ devUserId = Null

NextResolver ==
  \/ hostEnvironment
  \/ timePasses
  \/ refreshInitData
  \/ \E id \in TaskIds : retryInitData(id)
  \/ settleRefresh

SpecResolver == InitResolver /\ [][NextResolver]_vars

\* the resolver on an event loop that runs every timer that is due and every
\* queued microtask: setTimeout callbacks fire and promise reactions run
SpecResolverLive ==
  /\ InitResolver
  /\ [][NextResolver]_vars
  /\ WF_vars(\E id \in TaskIds : retryInitData(id))
  /\ WF_vars(settleRefresh)

\* the provider with the resolver under it and the components that call the
\* context's refreshAuth, against every response to /auth/webapp
NextAuth ==
  \/ hostEnvironment
  \/ refreshInitData
  \/ \E id \in TaskIds : retryInitData(id)
  \/ settleRefresh
  \/ \E c \in CallIds : \E resp \in Responses(calls[c].path) : apiFetchResponse(c, resp)
  \/ refreshAuthSettled
  \/ providerEffect
  \/ refreshAuthCall

SpecAuth == InitAuth /\ [][NextAuth]_vars

\* the same with a network that answers every request and an event loop that
\* runs every queued microtask
SpecAuthLive ==
  /\ InitAuth
  /\ [][NextAuth]_vars
  /\ WF_vars(\E c \in CallIds : \E resp \in Responses(calls[c].path) :
               apiFetchResponse(c, resp))
  /\ WF_vars(refreshAuthSettled)
  /\ WF_vars(settleRefresh)

\* TitlePage for a user Telegram has identified, with and without a preference
\* left in local storage by an earlier visit
InitTitle ==
  /\ InitIdentity
  /\ tgInitData = "tg1" /\ urlSearch = "" /\ urlHash = ""
  /\ lsToken = Null /\ devUserId = Null
  /\ InitPage
  /\ \E stored \in {<<Null, Null>>, <<"a2", "q2">>} :
       lsAudio = stored[1] /\ lsQuality = stored[2]

NextTitle ==
  \/ \E resp \in TitleResponses : loadTitle(resp)
  \/ \E resp \in EpisodesResponses : loadEpisodes(resp)
  \/ \E nextAudioId \in AudioIds : selectAudio(nextAudioId)
  \/ \E nextQualityId \in QualityIds : selectQuality(nextQualityId)
  \/ \E i \in ResolveIds : \E resp \in ResolveResponses(resolves[i]) :
        resolveSelectionSettled(i, resp)
  \/ \E direction \in {"prev", "next"} : goEpisode(direction)

SpecTitle == InitTitle /\ [][NextTitle]_vars

\* the watch flow from the Watch button on, for the selection the page loads
\* with in a browser whose local storage holds no preference: TitlePage,
\* WatchProvider and AdPage against every response
InitWatch == InitTitle /\ lsAudio = Null /\ lsQuality = Null

NextWatch ==
  \/ \E resp \in TitleResponses : loadTitle(resp)
  \/ \E resp \in EpisodesResponses : loadEpisodes(resp)
  \/ \E i \in ResolveIds : \E resp \in ResolveResponses(resolves[i]) :
        resolveSelectionSettled(i, resp)
  \/ handleWatch
  \/ \E i \in WatchIds : \E resp \in ResolveResponses(watches[i]) :
        watchResolveSettled(i, resp)
  \/ \E i \in WatchIds : \E resp \in WatchResponses : watchRequestSettled(i, resp)
  \/ \E i \in WatchIds : \E resp \in DispatchResponses : watchDispatchSettled(i, resp)
  \/ \E k \in AdsStartIds : \E resp \in AdsStartResponses : startAdsSettled(k, resp)
  \/ tick
  \/ handleContinue
  \/ \E j \in ContinueIds : \E resp \in AdsCompleteResponses : adsCompleteSettled(j, resp)
  \/ \E j \in ContinueIds : \E resp \in WatchResponses : continueRequestSettled(j, resp)
  \/ \E j \in ContinueIds : \E resp \in DispatchResponses : continueDispatchSettled(j, resp)

SpecWatch == InitWatch /\ [][NextWatch]_vars

\* the same with a network that answers every call of handleWatch and of
\* handleContinue: an invocation waits for one call at a time, so the answer
\* to whichever call it waits for is one fair step per invocation
SpecWatchLive ==
  /\ InitWatch
  /\ [][NextWatch]_vars
  /\ \A i \in WatchIds :
       WF_vars(\/ \E resp \in ResolveResponses(watches[i]) : watchResolveSettled(i, resp)
               \/ \E resp \in WatchResponses : watchRequestSettled(i, resp)
               \/ \E resp \in DispatchResponses : watchDispatchSettled(i, resp))
  /\ \A j \in ContinueIds :
       WF_vars(\/ \E resp \in AdsCompleteResponses : adsCompleteSettled(j, resp)
               \/ \E resp \in WatchResponses : continueRequestSettled(j, resp)
               \/ \E resp \in DispatchResponses : continueDispatchSettled(j, resp))

\* the reducer of WatchProvider on its own: dispatch of any action in any
\* state other than the initial one, which only reset leads back to
dispatch(action) ==
  /\ state' = reducer(state, action)
  /\ UNCHANGED <<authVars, route, titleVars, prefVars, adVars, resolveVars, watchCallVars,
                 adsStartVars, continueVars>>

InitReducer ==
  /\ InitIdentity
  /\ tgInitData = "tg1" /\ urlSearch = "" /\ urlHash = ""
  /\ lsToken = Null /\ devUserId = Null
  /\ lsAudio = Null /\ lsQuality = Null
  /\ InitPageLocal
  /\ adsStarts = [k \in AdsStartIds |-> NoAdsStart]
  /\ state \in WatchStates \ {initialState}

NextReducer == \E action \in WatchActions : dispatch(action)

SpecReducer == InitReducer /\ [][NextReducer]_vars

\* one title page and the ad page it leads to, with room in the table of
\* api.adsStart calls for one more run of the startAds effect than elsewhere,
\* so that state.variantId can change while AdPage is mounted
InitAd ==
  /\ InitIdentity
  /\ tgInitData = "tg1" /\ urlSearch = "" /\ urlHash = ""
  /\ lsToken = Null /\ devUserId = Null
  /\ lsAudio = Null /\ lsQuality = Null
  /\ InitPageLocal
  /\ adsStarts = [k \in 1..(MaxAdsStart + 1) |-> NoAdsStart]
  /\ state = initialState

NextAd ==
  \/ \E resp \in TitleResponses : loadTitle(resp)
  \/ handleWatch
  \/ \E i \in WatchIds : \E resp \in ResolveResponses(watches[i]) :
        watchResolveSettled(i, resp)
  \/ \E i \in WatchIds : \E resp \in WatchResponses : watchRequestSettled(i, resp)
  \/ \E k \in DOMAIN adsStarts : \E resp \in AdsStartResponses : startAdsSettled(k, resp)
  \/ tick
  \/ handleContinue
  \/ \E j \in ContinueIds : \E resp \in AdsCompleteResponses : adsCompleteSettled(j, resp)
  \/ \E j \in ContinueIds : \E resp \in WatchResponses : continueRequestSettled(j, resp)
  \/ \E j \in ContinueIds : \E resp \in DispatchResponses : continueDispatchSettled(j, resp)

SpecAd == InitAd /\ [][NextAd]_vars

\* the way to the cooldown notice of AdPage and back to TitlePage
NextBack ==
  \/ \E resp \in TitleResponses : loadTitle(resp)
  \/ \E i \in ResolveIds : \E resp \in ResolveResponses(resolves[i]) :
        resolveSelectionSettled(i, resp)
  \/ handleWatch
  \/ \E i \in WatchIds : \E resp \in ResolveResponses(watches[i]) :
        watchResolveSettled(i, resp)
  \/ \E i \in WatchIds : \E resp \in WatchResponses : watchRequestSettled(i, resp)
  \/ \E k \in AdsStartIds : \E resp \in AdsStartResponses : startAdsSettled(k, resp)
  \/ goBack

SpecBack == InitWatch /\ [][NextBack]_vars

\* the way from the selects over the Watch button to the Continue button: the
\* user changes the audio between two presses of Watch
NextReplay ==
  \/ \E resp \in TitleResponses : loadTitle(resp)
  \/ \E nextAudioId \in AudioIds : selectAudio(nextAudioId)
  \/ \E i \in ResolveIds : \E resp \in ResolveResponses(resolves[i]) :
        resolveSelectionSettled(i, resp)
  \/ handleWatch
  \/ \E i \in WatchIds : \E resp \in ResolveResponses(watches[i]) :
        watchResolveSettled(i, resp)
  \/ \E i \in WatchIds : \E resp \in WatchResponses : watchRequestSettled(i, resp)
  \/ \E k \in AdsStartIds : \E resp \in AdsStartResponses : startAdsSettled(k, resp)
  \/ tick
  \/ handleContinue

SpecReplay == InitWatch /\ [][NextReplay]_vars

TypeOK ==
  /\ authStatus \in AuthStatus
  /\ deferred \in DeferredIds
  /\ inflightRef \in 0..MaxTasks
  /\ authToken \in TokenValues \cup {Null}
  /\ lsToken \in TokenValues \cup {Null}


\* ------------------------------------------------------------ properties
RunningLoops == {t \in TaskIds : tasks[t].pc \in {"delay", "settling"}}
EndedLoops == {t \in TaskIds : tasks[t].pc = "done"}
LastEnded == CHOOSE t \in EndedLoops : \A u \in EndedLoops : u <= t
AllEmpty(log) == \A i \in 1..Len(log) : log[i].value = ""

\* C4: refreshInitData coalesces. A call made while a refresh is in flight gets
\* the promise of that refresh and starts nothing; a call made when none is in
\* flight starts a new retry loop; at most one retry loop runs at any time, and
\* it is the one the in-flight marker names.
C4_RefreshCoalesces ==
  /\ Cardinality(RunningLoops) <= 1
  /\ RunningLoops = (IF inflightRef = 0 THEN {} ELSE {inflightRef})
  /\ \A r \in refreshCalls :
       IF r.seen # 0 THEN r.got = r.seen /\ ~r.started
       ELSE r.started /\ r.got \notin {u.got : u \in {v \in refreshCalls : v.seen = 0 /\ v # r}}

\* a second call arrived while the first refresh was still sleeping between reads
C4_Witness ==
  \E r \in refreshCalls :
    r.seen # 0 /\ r.got = r.seen /\ tasks[r.got].pc = "delay" /\ nTasks = 1

\* C5: the retry loop stops at the first read that finds an identity. A loop
\* whose first two reads saw an empty native channel and whose third read saw
\* a non-empty one ends with that value and provenance telegram after exactly
\* three reads and two delays; no loop ever reads again after a non-empty read;
\* the refresh completes with what its loop returned.
C5_EarlyTermination ==
  /\ \A t \in TaskIds :
       LET log == tasks[t].log
       IN /\ \A i \in 1..(Len(log) - 1) : log[i].value = ""
          /\ (Len(log) >= 3 /\ log[1].tg = "" /\ log[2].tg = "" /\ log[3].tg # "") =>
               /\ tasks[t].pc \in {"settling", "done"}
               /\ Len(log) = 3 /\ tasks[t].attempt = 2
               /\ tasks[t].value = log[3].tg /\ tasks[t].source = "telegram"
          /\ (tasks[t].pc \in {"settling", "done"} /\ tasks[t].value # "") =>
               tasks[t].value = log[Len(log)].value
  /\ EndedLoops # {} =>
       /\ currentInitData = tasks[LastEnded].value
       /\ currentInitDataSource = tasks[LastEnded].source

\* the native channel was filled between the second and the third read, and the
\* refresh has completed with it
C5_Witness ==
  \E t \in TaskIds :
    /\ tasks[t].pc = "done" /\ Len(tasks[t].log) = 3
    /\ tasks[t].log[1].tg = "" /\ tasks[t].log[2].tg = "" /\ tasks[t].log[3].tg # ""
    /\ currentInitData = tasks[t].log[3].tg /\ currentInitDataSource = "telegram"

\* C6: a refresh all of whose reads found every source empty uses up its
\* retries (initDataRetry + 1 reads), completes, and leaves the identity
\* singleton empty with provenance null.
C6_AllEmptyCompletes ==
  /\ \A t \in TaskIds :
       (tasks[t].pc \in {"settling", "done"} /\ AllEmpty(tasks[t].log)) =>
         /\ Len(tasks[t].log) = initDataRetry + 1
         /\ tasks[t].value = "" /\ tasks[t].source = Null
  /\ (EndedLoops # {} /\ AllEmpty(tasks[LastEnded].log)) =>
       /\ currentInitData = "" /\ currentInitDataSource = Null
       /\ initData = "" /\ initDataSource = Null

\* the page was loaded with an identity in its URL, the URL was replaced, and a
\* refresh that found nothing has emptied the singleton
C6_Witness ==
  \E t \in TaskIds :
    /\ tasks[t].pc = "done" /\ AllEmpty(tasks[t].log)
    /\ Len(tasks[t].log) = initDataRetry + 1
    /\ hostWrites = 1 /\ t = 1
    /\ currentInitData = "" /\ currentInitDataSource = Null


\* C1: fan-out of the auth gate. For an attempt that resetAuthGate opened and
\* that has received exactly one mark, every caller suspended on that attempt's
\* deferred has been scheduled by the mark (none stays behind), and each one,
\* when it resumes, proceeds if the mark was ready, fails with auth_missing if
\* it was missing and with auth_failed if it was failed.
C1_GateFanOut ==
  /\ [](\A c \in CallIds :
          (calls[c].pc = "gate" /\ calls[c].awaited >= 1
             /\ Len(marks[calls[c].awaited]) = 1) =>
            \E i \in DOMAIN microtasks : microtasks[i] = <<"wake", c>>)
  /\ [][\A c \in CallIds :
          (calls[c].pc = "gate" /\ calls'[c].pc # "gate" /\ calls[c].awaited >= 1
             /\ Len(marks[calls[c].awaited]) = 1) =>
            LET mark == marks[calls[c].awaited][1]
            IN /\ mark = "ready" =>
                    calls'[c].pc = "fetching" /\ calls'[c].gate = "ok"
               /\ mark = "missing" =>
                    /\ calls'[c] = DoneCall /\ settled'.call = c
                    /\ settled'.rec.outcome = "auth_missing"
               /\ mark = "failed" =>
                    /\ calls'[c] = DoneCall /\ settled'.call = c
                    /\ settled'.rec.outcome = "auth_failed"]_vars

\* two callers that suspended on the same attempt have both gone on to their
\* requests after its single mark, ready
C1_Witness ==
  \E c1, c2 \in CallIds :
    /\ c1 # c2 /\ calls[c1].awaited >= 1 /\ calls[c2].awaited = calls[c1].awaited
    /\ calls[c1].pc = "fetching" /\ calls[c2].pc = "fetching"
    /\ calls[c1].gate = "ok" /\ calls[c2].gate = "ok"
    /\ marks[calls[c1].awaited] = <<"ready">>

\* C2: a call that enters waitForAuthReady while the gate is not pending is
\* never suspended: with status ready it goes on, with status missing it fails
\* with auth_missing, with status failed it fails with auth_failed, in the step
\* of the call itself; a call that got past the gate is not suspended later.
C2_SettledGateNeverSuspends ==
  [][\A c \in CallIds :
       LET rec == IF calls'[c].pc = "done" THEN settled'.rec ELSE calls'[c]
       IN /\ (calls[c].pc = "none" /\ calls'[c].pc # "none" /\ rec.gate # "n/a"
                /\ authStatus # "pending") =>
               /\ calls'[c].pc # "gate" /\ rec.awaited = -1
               /\ authStatus = "ready" => calls'[c].pc = "passed" /\ rec.gate = "ok"
               /\ authStatus = "missing" =>
                    calls'[c] = DoneCall /\ rec.outcome = "auth_missing"
               /\ authStatus = "failed" =>
                    calls'[c] = DoneCall /\ rec.outcome = "auth_failed"
          /\ calls[c].pc = "passed" => calls'[c].pc \in {"passed", "fetching"}]_vars

\* a call made after a rejected attempt has failed at once with auth_failed
C2_Witness ==
  /\ authStatus = "failed"
  /\ settled.call # 0 /\ settled.rec.requiresAuth
  /\ settled.rec.gate = "auth_failed" /\ settled.rec.outcome = "auth_failed"
  /\ settled.rec.awaited = -1 /\ settled.rec.hdr = "n/a"

\* C3: the gate status changes once per attempt: a status other than pending
\* only ever changes to pending, and only by resetAuthGate replacing the
\* deferred.
C3_OneTerminalStatusPerAttempt ==
  [][(authStatus # "pending" /\ authStatus' # authStatus) =>
       (authStatus' = "pending" /\ deferred' # deferred)]_vars

\* C7: an apiFetch call with requiresAuth, made with an empty identity, no
\* token and no dev user id, ends in the step of the call with auth_missing,
\* without a request and without having entered waitForAuthReady.
C7_NoIdentityFailsAtOnce ==
  [][\A c \in CallIds :
       (calls[c].pc = "none" /\ calls'[c].pc # "none"
          /\ (IF calls'[c].pc = "done" THEN settled'.rec ELSE calls'[c]).requiresAuth
          /\ currentInitData = "" /\ getAuthToken = Null /\ getDevUserId = Null) =>
         /\ calls'[c] = DoneCall /\ settled'.call = c
         /\ settled'.rec.outcome = "auth_missing"
         /\ settled'.rec.hdr = "n/a"
         /\ settled'.rec.gate = "n/a" /\ settled'.rec.awaited = -1
         /\ \A i \in DOMAIN microtasks' : microtasks'[i][2] # c]_vars

\* such a call has just failed while the gate was still pending
C7_Witness ==
  /\ settled.call # 0 /\ settled.rec.requiresAuth /\ settled.rec.noCred
  /\ settled.rec.outcome = "auth_missing" /\ settled.rec.gate = "n/a"
  /\ settled.rec.hdr = "n/a"
  /\ currentInitData = "" /\ authStatus = "pending"

\* C8: a requiresAuth call that entered with neither token nor dev user id
\* calls fetch() only in a step in which the gate status is ready and
\* waitForAuthReady has returned normally; a suspended call that resumes while
\* the status is not ready ends with auth_missing or auth_failed and without a
\* request.
C8_RequestOnlyAfterReady ==
  [][\A c \in CallIds :
       /\ (calls[c].pc # "fetching" /\ calls'[c].pc = "fetching"
             /\ calls'[c].requiresAuth /\ calls'[c].noCred) =>
            (calls'[c].gate = "ok" /\ authStatus = "ready")
       /\ (calls[c].pc = "gate" /\ calls'[c].pc # "gate" /\ authStatus # "ready") =>
            /\ calls'[c] = DoneCall /\ settled'.call = c
            /\ settled'.rec.hdr = "n/a"
            /\ settled'.rec.outcome =
                 (IF authStatus = "missing" THEN "auth_missing" ELSE "auth_failed")]_vars

\* a call that was suspended on the gate has sent its request after the
\* attempt ended ready
C8_Witness ==
  \E c \in CallIds :
    /\ calls[c].pc = "fetching" /\ calls[c].requiresAuth /\ calls[c].noCred
    /\ calls[c].awaited >= 0 /\ calls[c].gate = "ok" /\ authStatus = "ready"

\* C9: every request carries the bearer token if one is stored, otherwise the
\* identity header if the host identity is non-empty, otherwise the dev user
\* id header if one is configured.
C9_CredentialSelection ==
  [][\A c \in CallIds :
       (calls[c].pc # "fetching" /\ calls'[c].pc = "fetching") =>
         calls'[c].hdr = (IF getAuthToken # Null THEN "Authorization"
                          ELSE IF currentInitData # "" THEN "X-Init-Data"
                          ELSE IF getDevUserId # Null THEN "X-Dev-User-Id"
                          ELSE "none")]_vars

\* C10: a 401 or 403 response ends the call with auth_error; the token in
\* memory and the one in local storage are both removed when the detail is
\* token_expired, token_invalid or token_missing, and both are left as they
\* were for any other detail.
C10_RejectionClearsToken ==
  [][\A c \in CallIds :
       (calls[c].pc = "fetching" /\ calls'[c].pc = "done"
          /\ response'.status \in {401, 403}) =>
         /\ response'.call = c /\ settled'.call = c
         /\ settled'.rec.outcome = "auth_error"
         /\ IF response'.detail \in {"token_expired", "token_invalid", "token_missing"}
              THEN authToken' = Null /\ lsToken' = Null
              ELSE authToken' = authToken /\ lsToken' = lsToken]_vars

\* a request sent with a bearer token was answered 401 token_expired and the
\* token is gone
C10_Witness ==
  /\ response.status = 401 /\ response.detail = "token_expired"
  /\ settled.call = response.call /\ settled.rec.outcome = "auth_error"
  /\ settled.rec.hdr = "Authorization" /\ settled.rec.path = "api"
  /\ authToken = Null /\ lsToken = Null

\* the step in which refreshAuth resumes after api.authWebapp has settled
authWebappSettles == microtasks # <<>> /\ Head(microtasks)[1] = "authcont"

\* C11: refreshAuth called while the host identity is empty marks the gate
\* missing, clears the user and the premium state and returns; it does not
\* reset the gate (no new deferred, status not pending) and it issues no
\* /auth/webapp call.
C11_EmptyIdentityMarksMissing ==
  [][(nRefreshAuth' # nRefreshAuth /\ initDataLen = 0) =>
       /\ authStatus' = "missing"
       /\ user' = NoUser /\ premiumUntil' = Null /\ premiumActive' = FALSE
       /\ authResult' = "returned"
       /\ deferred' = deferred
       /\ nCalls' = nCalls /\ calls' = calls]_vars

\* a user that an earlier attempt had recorded (its token t1 is still stored)
\* has been cleared by a refreshAuth that found the identity empty
C11_Witness ==
  /\ authResult = "returned" /\ authStatus = "missing" /\ initDataLen = 0
  /\ nRefreshAuth > 0 /\ lsToken = "t1" /\ user = NoUser

\* C12: when the /auth/webapp call of refreshAuth fails, the stored token is
\* cleared (memory and local storage), the gate is marked failed and so is not
\* pending, the recorded user and premium state stay as they were, and
\* refreshAuth throws.
C12_FailureClearsTokenMarksFailed ==
  [][(authWebappSettles /\ settled.rec.outcome # "ok") =>
       /\ authToken' = Null /\ lsToken' = Null
       /\ authStatus' = "failed"
       /\ user' = user /\ premiumUntil' = premiumUntil /\ premiumActive' = premiumActive
       /\ authResult' = "threw"]_vars

\* a failed attempt after a successful one: the user of the first is kept,
\* the token it had stored is gone
C12_Witness ==
  /\ authResult = "threw" /\ authStatus = "failed"
  /\ user # NoUser /\ user.access_token = "t1" /\ lsToken = Null /\ authToken = Null

\* C13: when the /auth/webapp call of refreshAuth succeeds, the stored token is
\* the one of the response, the user is exactly the response, and the gate is
\* marked ready with both in place; the user changes from absent to present
\* only in such a step.
C13_SuccessStoresTokenAndUser ==
  /\ [][(authWebappSettles /\ settled.rec.outcome = "ok") =>
          /\ authToken' = response.token /\ lsToken' = response.token
          /\ user' = AuthData(response)
          /\ premiumUntil' = response.premium_until
          /\ authStatus' = "ready"
          /\ authResult' = "returned"]_vars
  /\ [][(user = NoUser /\ user' # NoUser) =>
          (authWebappSettles /\ settled.rec.outcome = "ok")]_vars

\* a second successful attempt whose response has no premium_until, after a
\* first that also marked the gate
C13_Witness ==
  /\ authResult = "returned" /\ authStatus = "ready" /\ deferred >= 2
  /\ user # NoUser /\ user.premium_until = Null /\ response.premium_until = Null
  /\ \E d \in DeferredIds : Len(marks[d]) >= 2

\* ----------------------------------------------------------- the watch flow
\* C14: when api.watchRequest of a handleWatch invocation answers mode direct
\* and api.watchDispatch then succeeds, the status goes requesting,
\* dispatching, queued: it is requesting when the answer arrives and
\* dispatching with the returned variant right after, it stays dispatching with
\* that variant (so never ad_gate) for as long as the invocation awaits
\* api.watchDispatch, and the success of that call leaves queued with the same
\* variant.
C14_DirectPath ==
  [][\A i \in WatchIds :
       /\ \A v \in VariantIds :
            watchRequestSettled(i, [outcome |-> "ok", mode |-> "direct", variant_id |-> v])
              => /\ state.status = "requesting"
                 /\ state'.status = "dispatching"
                 /\ state'.variantId = v
       /\ watches[i].pc = "dispatch"
            => state.status = "dispatching" /\ state.variantId = watches[i].variantId
       /\ watchDispatchSettled(i, [outcome |-> "ok"])
            => state'.status = "queued" /\ state'.variantId = watches[i].variantId
  ]_vars

\* C15: when api.watchRequest of a handleWatch invocation answers mode ad_gate
\* the flow stops at ad_gate with the returned variant stored and the
\* invocation ends without calling api.watchDispatch; while the status is
\* ad_gate no handleWatch invocation starts api.watchDispatch and the status
\* does not become dispatching: that takes handleContinue, whose api.adsComplete
\* has succeeded (request_start) and whose replayed api.watchRequest succeeds.
C15_AdGateHolds ==
  [][/\ \A i \in WatchIds : \A v \in VariantIds :
          watchRequestSettled(i, [outcome |-> "ok", mode |-> "ad_gate", variant_id |-> v])
            => /\ state'.status = "ad_gate"
               /\ state'.variantId = v
               /\ watches'[i].pc = "done"
     /\ state.status = "ad_gate"
          => /\ state'.status # "dispatching"
             /\ \A i \in WatchIds : watches'[i].pc = "dispatch" => watches[i].pc = "dispatch"
  ]_vars

\* C16: when api.adsStart is rejected with ad_cooldown and retry_after 30, the
\* watch flow state becomes ads_cooldown, its message carries the value 30,
\* and its variantId and params are the ones it had before the rejection.
C16_CooldownCarriesRetryAfter ==
  [][\A k \in AdsStartIds :
       startAdsSettled(k, [outcome |-> "ad_cooldown", retry_after |-> "30"])
         => /\ state'.status = "ads_cooldown"
            /\ "30" \in Elements(state'.message)
            /\ state'.variantId = state.variantId
            /\ state'.params = state.params
  ]_vars

\* the invocations of handleWatch and of handleContinue that await the call
\* named by pc
InFlight(pc) ==
  Cardinality({i \in WatchIds : watches[i].pc = pc})
    + Cardinality({j \in ContinueIds : continues[j].pc = pc})

\* C17: the steps of a watch attempt run one after another: at no time are two
\* api.watchRequest calls, or two api.watchDispatch calls, in flight together,
\* however often Watch and Continue are pressed.
C17_StepsSequential ==
  InFlight("request") <= 1 /\ InFlight("dispatch") <= 1

\* C18: for one nonce api.adsComplete is called at most once: no two
\* invocations of handleContinue, running or ended, hold the same nonce.
C18_ContinueOncePerNonce ==
  \A j1, j2 \in ContinueIds :
    (continues[j1].pc # "none" /\ continues[j2].pc # "none" /\ j1 # j2)
      => continues[j1].nonce # continues[j2].nonce

\* ------------------------------------------------------------ preferences
\* C19: the two preference keys of local storage change only in the step in
\* which api.watchResolve of resolveSelection answers with success, and then
\* to the ids of that answer; the onChange handlers of the two selects leave
\* them alone.
C19_PersistOnlyAfterResolve ==
  [][/\ prefVars' # prefVars
          => \E i \in ResolveIds : \E resp \in ResolveResponses(resolves[i]) :
               /\ resp.outcome = "ok"
               /\ resolveSelectionSettled(i, resp)
               /\ lsAudio' = resp.audio_id
               /\ lsQuality' = resp.quality_id
     /\ \A nextAudioId \in AudioIds : selectAudio(nextAudioId) => UNCHANGED prefVars
     /\ \A nextQualityId \in QualityIds : selectQuality(nextQualityId) => UNCHANGED prefVars
  ]_vars

\* C20: when api.watchResolve of resolveSelection fails with variant_not_found
\* the page shows the unavailable indication, and local storage holds what it
\* held before the step that made the call began.
C20_NotFoundKeepsPreference ==
  [][\A i \in ResolveIds :
       resolveSelectionSettled(i, [outcome |-> "variant_not_found", audio_id |-> Null,
                                   quality_id |-> Null])
         => /\ resolveStatus' = "unavailable"
            /\ <<lsAudio', lsQuality'>> = resolves[i].stored
  ]_vars

\* ----------------------------------------------------- failures and frames
\* C21: while TitlePage is shown, a variant_not_found answer to api.watchResolve,
\* in resolveSelection and in handleWatch alike, sets the unavailable
\* indication and does not put the watch flow into status error; any other
\* failure of the call sets neither the available nor the unavailable
\* indication.
C21_NotFoundIsNotAnError ==
  [][/\ \A i \in ResolveIds :
          /\ resolveSelectionSettled(i, [outcome |-> "variant_not_found",
                                         audio_id |-> Null, quality_id |-> Null])
               /\ route = "title"
               => resolveStatus' = "unavailable" /\ state'.status = state.status
          /\ resolveSelectionSettled(i, [outcome |-> "server_error",
                                         audio_id |-> Null, quality_id |-> Null])
               /\ route = "title"
               => resolveStatus' = Null
     /\ \A i \in WatchIds :
          /\ watchResolveSettled(i, [outcome |-> "variant_not_found",
                                     audio_id |-> Null, quality_id |-> Null])
               /\ route = "title"
               => resolveStatus' = "unavailable" /\ state'.status # "error"
          /\ watchResolveSettled(i, [outcome |-> "server_error",
                                     audio_id |-> Null, quality_id |-> Null])
               /\ route = "title"
               => resolveStatus' = resolveStatus
  ]_vars

\* C22: the watch flow holds no variantId while its status is idle or
\* requesting, also in the requesting state of an attempt that follows one
\* which stored a variantId.
C22_VariantOnlyFromAdGate ==
  state.status \in {"idle", "requesting"} => state.variantId = Null

\* the WatchRequestPayload an invocation of handleWatch sent to api.watchRequest
payloadOf(rec) ==
  [title_id |-> TitleId, episode_id |-> rec.episode_id, audio_id |-> rec.audio_id,
   quality_id |-> rec.quality_id]

\* C23: params changes only in the step that dispatches set_params; every
\* other dispatch leaves it as it was, so when api.watchRequest answers
\* ad_gate the stored params are the payload of that request, and the request
\* handleContinue replays carries the stored params.
C23_ParamsOnlyBySetParams ==
  [][/\ state'.params # state.params
          => \E i \in WatchIds : watches[i].pc = "resolve" /\ watches'[i].pc = "request"
     /\ \A i \in WatchIds : \A v \in VariantIds :
          watchRequestSettled(i, [outcome |-> "ok", mode |-> "ad_gate", variant_id |-> v])
            => state'.params = payloadOf(watches[i])
     /\ handleContinue => continues'[nContinue'].params = state.params
  ]_vars

\* C24: reset, dispatched in any watch flow state, yields status idle with
\* no params, no variantId and no message.
C24_ResetClearsAll ==
  [][dispatch(reset)
       => /\ state'.status = "idle"
          /\ state'.params = NoParams
          /\ state'.variantId = Null
          /\ state'.message = <<>>
  ]_vars

\* reset has acted: no other dispatch and no initial state gives the status
\* idle with nothing stored
C24_Witness == state = initialState

\* C25: when the watch flow has reached error, ads_cooldown or queued and the
\* user navigates away from the ad page, the flow is back at idle: the
\* TitlePage shown next observes status idle.
C25_NavigationResets ==
  [][goBack /\ state.status \in {"error", "ads_cooldown", "queued"}
       => state'.status = "idle"
  ]_vars

\* ------------------------------------------------------------- episodes
\* C26: goEpisode selects the episode at the list position before (prev) or
\* after (next) the position of the selected episode; when there is no such
\* position, or the selected episode is not in the list, nothing changes; the
\* watch flow state is never touched.
C26_GoEpisodeMovesByOne ==
  [][\A direction \in {"prev", "next"} :
       goEpisode(direction)
         => LET step == IF direction = "prev" THEN -1 ELSE 1
                hasTarget == \E p \in 1..Len(episodes) :
                               episodes[p] = selectedEpisodeId /\ p + step \in 1..Len(episodes)
            IN /\ state' = state
               /\ hasTarget
                    => \E p \in 1..Len(episodes) :
                         /\ episodes[p] = selectedEpisodeId
                         /\ selectedEpisodeId' = episodes[p + step]
               /\ ~hasTarget => UNCHANGED vars
  ]_vars

\* Next was pressed: the page loads with the first episode selected, and the
\* second one is only ever selected by goEpisode
C26_Witness ==
  /\ episodes = <<"e1", "e2", "e3">>
  /\ selectedEpisodeId = "e2"
  /\ state = initialState

\* ------------------------------------------------------ identity sources
\* C27: every read of the sources, the first one of refreshInitData and each
\* one after a delay, takes a non-empty host value before the query parameter
\* and the query parameter before the fragment parameter, records the source
\* that gave the value, and records no source exactly when the value is
\* empty; the singleton and the provider state keep that pairing when the
\* task settles.
C27_SourcePriority ==
  [][/\ \A id \in TaskIds :
          Len(tasks'[id].log) = Len(tasks[id].log) + 1
            => LET read == tasks'[id].log[Len(tasks'[id].log)]
               IN /\ tgInitData # ""
                       => read.value = tgInitData /\ read.source = "telegram"
                  /\ tgInitData = "" /\ urlSearch # ""
                       => read.value = urlSearch /\ read.source = "url-search"
                  /\ tgInitData = "" /\ urlSearch = "" /\ urlHash # ""
                       => read.value = urlHash /\ read.source = "url-hash"
                  /\ read.source = Null <=> read.value = ""
     /\ currentInitDataSource' = Null <=> currentInitData' = ""
     /\ initDataSource' = Null <=> initData' = ""
  ]_vars

\* a read took the query parameter while the fragment held one too, and the
\* task has settled with it
C27_Witness ==
  /\ urlHash # ""
  /\ currentInitDataSource = "url-search"
  /\ \E id \in TaskIds :
       /\ tasks[id].pc = "done"
       /\ \E k \in 1..Len(tasks[id].log) : tasks[id].log[k].source = "url-search"

\* C28: the step in which a refresh task ends stores the task's result, found
\* or empty, in the singleton and in the provider state and sets the
\* timestamp to the time of that step; no step moves the timestamp back.
C28_RefreshStampsEveryAttempt ==
  [][/\ \A id \in TaskIds :
          tasks[id].pc = "settling" /\ tasks'[id].pc = "done"
            => /\ currentInitData' = tasks[id].value
               /\ currentInitDataSource' = tasks[id].source
               /\ initData' = tasks[id].value
               /\ timestamp' = clock
     /\ timestamp' >= timestamp
  ]_vars

\* a refresh that found no identity has ended after time had passed: the
\* singleton is empty and the timestamp is later than the one taken at mount
C28_Witness ==
  /\ \E id \in TaskIds : tasks[id].pc = "done" /\ tasks[id].value = ""
  /\ currentInitData = ""
  /\ timestamp > 0

\* C29: when api.watchRequest or api.watchDispatch of handleWatch, or
\* api.adsComplete, the replayed api.watchRequest or api.watchDispatch of
\* handleContinue, is rejected, or api.adsStart is rejected with anything but
\* ad_cooldown, the same step leaves the watch flow in error with the message
\* of the rejection and with params and variantId as they were, starts no
\* call, and ends the invocation, which never acts again.
C29_FailureEndsInError ==
  [][/\ \A i \in WatchIds :
          \/ \E resp \in WatchResponses :
               resp.outcome # "ok" /\ watchRequestSettled(i, resp)
          \/ \E resp \in DispatchResponses :
               resp.outcome # "ok" /\ watchDispatchSettled(i, resp)
          => /\ state' = [state EXCEPT !.status = "error", !.message = <<"server_error">>]
             /\ watches'[i].pc = "done"
             /\ UNCHANGED <<route, adVars, adsStartVars, continueVars>>
     /\ \A j \in ContinueIds :
          \/ \E resp \in AdsCompleteResponses :
               resp.outcome # "ok" /\ adsCompleteSettled(j, resp)
          \/ \E resp \in WatchResponses :
               resp.outcome # "ok" /\ continueRequestSettled(j, resp)
          \/ \E resp \in DispatchResponses :
               resp.outcome # "ok" /\ continueDispatchSettled(j, resp)
          => /\ state' = [state EXCEPT !.status = "error", !.message = <<"server_error">>]
             /\ continues'[j].pc = "done"
             /\ UNCHANGED <<route, adVars, adsStartVars, watchCallVars>>
     /\ \A k \in AdsStartIds :
          (\E resp \in AdsStartResponses :
             resp.outcome \notin {"ok", "ad_cooldown"} /\ startAdsSettled(k, resp))
          => /\ state' = [state EXCEPT !.status = "error", !.message = <<"server_error">>]
             /\ adsStarts'[k].pc = "done"
             /\ UNCHANGED <<route, adVars, nAdsStart, watchCallVars, continueVars>>
     /\ \A i \in WatchIds : watches[i].pc = "done" => watches'[i] = watches[i]
     /\ \A j \in ContinueIds : continues[j].pc = "done" => continues'[j] = continues[j]
     /\ \A k \in AdsStartIds : adsStarts[k].pc = "done" => adsStarts'[k] = adsStarts[k]
  ]_vars

\* api.adsComplete of a Continue was rejected on the ad page: the flow shows
\* the error, the variant of the gate and the parameters are still stored and
\* the page is not completed
C29_Witness ==
  /\ route = "ad"
  /\ state.status = "error"
  /\ state.message = <<"server_error">>
  /\ state.params # NoParams
  /\ state.variantId # Null
  /\ ~completed
  /\ \E j \in ContinueIds : continues[j].pc = "done"

\* ------------------------------------------------------------ the ad gate
\* C30: the step of the Continue button that calls api.adsComplete is taken
\* with a nonce that api.adsStart returned for the variantId the watch flow
\* stores at that moment, with the countdown at 0 and with no cooldown
\* notice; the countdown starts at 10, never falls below 0, and falls only by
\* one and only while a nonce is held.
C30_CompleteOnlyAfterOwnAd ==
  [][/\ handleContinue
          => /\ nonce # 0
             /\ adsStarts[nonce].pc = "done"
             /\ adsStarts[nonce].variantId = state.variantId
             /\ secondsLeft = 0
             /\ cooldownMessage = NoCooldown
     /\ secondsLeft' >= 0
     /\ secondsLeft' <= AD_TIMER_SECONDS
     /\ secondsLeft' < secondsLeft => nonce # 0 /\ secondsLeft' = secondsLeft - 1
  ]_vars

\* ------------------------------------------------------------- dispatch
\* C31: a step in which api.watchDispatch of handleWatch or of handleContinue
\* settles leaves the watch flow in queued only when the response is a
\* success that reports queued = true.
C31_QueuedOnlyWhenAccepted ==
  [][/\ \A i \in WatchIds : \A resp \in DispatchResponses :
          watchDispatchSettled(i, resp) /\ state'.status = "queued"
            => resp.outcome = "ok" /\ resp.queued = TRUE
     /\ \A j \in ContinueIds : \A resp \in DispatchResponses :
          continueDispatchSettled(j, resp) /\ state'.status = "queued"
            => resp.outcome = "ok" /\ resp.queued = TRUE
  ]_vars

\* ------------------------------------------------------ echoed selection
\* C32: on the title page, the step in which a successful api.watchResolve
\* settles, the one of resolveSelection as well as the one of handleWatch,
\* leaves audioId and qualityId equal to the pair of the response and local
\* storage holding that pair; in handleWatch the api.watchRequest started in
\* the same step carries that pair.
C32_EchoBecomesSelection ==
  [][/\ \A i \in ResolveIds : \A resp \in ResolveResponses(resolves[i]) :
          resolveSelectionSettled(i, resp) /\ resp.outcome = "ok" /\ route = "title"
            => /\ audioId' = resp.audio_id /\ qualityId' = resp.quality_id
               /\ lsAudio' = resp.audio_id /\ lsQuality' = resp.quality_id
     /\ \A i \in WatchIds : \A resp \in ResolveResponses(watches[i]) :
          watchResolveSettled(i, resp) /\ resp.outcome = "ok" /\ route = "title"
            => /\ audioId' = resp.audio_id /\ qualityId' = resp.quality_id
               /\ lsAudio' = resp.audio_id /\ lsQuality' = resp.quality_id
               /\ watches'[i].pc = "request"
               /\ watches'[i].audio_id = resp.audio_id
               /\ watches'[i].quality_id = resp.quality_id
  ]_vars

\* ------------------------------------------------------ refresh terminates
\* C33: a refresh task reads the sources once at its start and once after
\* each delay, sleeps at most initDataRetry times and so reads at most
\* initDataRetry + 1 times; every task that has started ends, and a task
\* that has ended is no longer the in-flight one.
C33_RefreshTerminates ==
  /\ [](\A id \in TaskIds :
          /\ tasks[id].attempt <= initDataRetry
          /\ Len(tasks[id].log) <= initDataRetry + 1
          /\ tasks[id].pc # "none" => Len(tasks[id].log) = tasks[id].attempt + 1
          /\ tasks[id].pc = "done" => inflightRef # id
          /\ tasks[id].pc \in {"delay", "settling"} => inflightRef = id)
  /\ \A id \in TaskIds :
       tasks[id].pc \in {"delay", "settling"} ~> tasks[id].pc = "done"

\* a task has ended without an identity after initDataRetry delays and
\* initDataRetry + 1 reads, and no task is in flight
C33_Witness ==
  /\ inflightRef = 0
  /\ \E id \in TaskIds :
       /\ tasks[id].pc = "done"
       /\ tasks[id].value = ""
       /\ tasks[id].attempt = initDataRetry
       /\ Len(tasks[id].log) = initDataRetry + 1

\* ------------------------------------------------- waiters across a reset
\* C34: the step that marks the gate ready, missing or failed schedules the
\* continuation of every waitForAuthReady call that is suspended at that
\* moment, whichever deferred the call subscribed to: the one of module load,
\* or one that a later resetAuthGate has replaced.
C34_NoWaiterLost ==
  [][(\E d \in DeferredIds : Len(marks'[d]) > Len(marks[d]))
       => \A c \in CallIds :
            calls[c].pc = "gate"
              => \E i \in DOMAIN microtasks' : microtasks'[i] = <<"wake", c>>
  ]_vars

\* ------------------------------------------------- the gate does not hang
\* C35: the call of /auth/webapp never subscribes to the gate; the step in
\* which refreshAuth resumes after that call marks the gate ready or failed;
\* and a gate that a refreshAuth has reset to pending leaves pending again,
\* given that every request is answered.
C35_GateLeavesPending ==
  /\ [](\A c \in CallIds :
          calls[c].path = "webapp" => calls[c].pc # "gate" /\ calls[c].awaited = -1)
  /\ [][refreshAuthSettled
          => /\ authStatus' \in {"ready", "failed"}
             /\ Len(marks'[deferred]) = Len(marks[deferred]) + 1]_vars
  /\ (authStatus = "pending" /\ deferred >= 1) ~> (authStatus # "pending")

\* two refreshAuth calls overlapped, each reset the gate, and both have
\* ended: the attempt opened last carries both marks
C35_Witness ==
  /\ deferred = 2
  /\ Len(marks[2]) = 2
  /\ authStatus \in {"ready", "failed"}

\* ------------------------------------------------- one state per attempt
\* C36: the step that brings the watch flow to ad_gate, dispatching or queued
\* leaves it with params that are not empty and are the payload of the
\* api.watchRequest whose response named the variantId it stores, for
\* handleWatch and for the replay of handleContinue, whatever the order in
\* which the responses of overlapping invocations arrive.
C36_VariantBelongsToParams ==
  [][/\ \A i \in WatchIds : \A resp \in WatchResponses :
          watchRequestSettled(i, resp) /\ resp.outcome = "ok"
            => /\ state'.status \in {"ad_gate", "dispatching"}
               /\ state'.variantId = resp.variant_id
               /\ state'.params # NoParams
               /\ state'.params = payloadOf(watches[i])
     /\ \A i \in WatchIds : \A resp \in DispatchResponses :
          watchDispatchSettled(i, resp) /\ resp.outcome = "ok"
            => /\ state'.status = "queued"
               /\ state'.variantId = watches[i].variantId
               /\ state'.params = payloadOf(watches[i])
     /\ \A j \in ContinueIds : \A resp \in WatchResponses :
          continueRequestSettled(j, resp) /\ resp.outcome = "ok"
            => /\ state'.status = "dispatching"
               /\ state'.variantId = resp.variant_id
               /\ state'.params = continues[j].params
     /\ \A j \in ContinueIds : \A resp \in DispatchResponses :
          continueDispatchSettled(j, resp) /\ resp.outcome = "ok"
            => /\ state'.status = "queued"
               /\ state'.variantId = continues[j].variantId
               /\ state'.params = continues[j].params
  ]_vars

\* ------------------------------------------------------- resolves in a row
\* C37: when the last api.watchResolve of resolveSelection still in flight
\* settles, the page shows the response to the call issued last: if the one
\* that settles is that call, selection, indication and local storage take
\* its response; if it is an older call, whose newer ones have settled
\* before it, it changes none of them.
C37_LatestResolveWins ==
  [][\A i \in ResolveIds : \A resp \in ResolveResponses(resolves[i]) :
       (/\ resolveSelectionSettled(i, resp)
        /\ route = "title"
        /\ \A k \in ResolveIds : resolves'[k].pc # "flying")
         => IF i = nResolve
              THEN /\ resp.outcome = "ok"
                        => /\ audioId' = resp.audio_id /\ qualityId' = resp.quality_id
                           /\ lsAudio' = resp.audio_id /\ lsQuality' = resp.quality_id
                           /\ resolveStatus' = "available"
                   /\ resp.outcome = "variant_not_found" => resolveStatus' = "unavailable"
              ELSE UNCHANGED <<audioId, qualityId, resolveStatus, resolvedSelection, prefVars>>
  ]_vars

\* ------------------------------------------------- no transient dead end
\* C38: a watch flow in status requesting or dispatching reaches ad_gate,
\* queued or error, given that every call of handleWatch and handleContinue
\* is answered.
C38_TransientStatusEnds ==
  state.status \in {"requesting", "dispatching"}
    ~> state.status \in {"ad_gate", "queued", "error"}

\* a Continue went through request_start, the replay and the dispatch and
\* brought the flow to queued on the ad page
C38_Witness ==
  /\ route = "ad"
  /\ state.status = "queued"
  /\ completed
  /\ \E j \in ContinueIds : continues[j].pc = "done"

====
